---- MODULE Spec2Model ----
(***************************************************************************)
(* RAG_MVP: the seeder (discovery, fetch, parse, chunk, embed, upsert),    *)
(* the prune script and the query path (retrieve, answer), as state        *)
(* machines translated from src/scripts/db_ping.ts, src/lib/rag.ts,        *)
(* src/app/page.tsx and src/app/api/chat/route.ts.                         *)
(*                                                                         *)
(* Numbers with a fractional part (scores, distances) are kept in          *)
(* thousandths: 0.25 is 250.  Strings that the code inspects character by  *)
(* character are sequences of one-character strings.                       *)
(***************************************************************************)
EXTENDS Integers, Sequences, FiniteSets, Bags, TLC

VARIABLES
  fw,         \* fetchWithRetry: the activation record of the running call
  fwHist,     \* history: the outcomes and the backoff delays of that call
  table,      \* the rows of the documents table (committed), a bag of rows
  an,         \* answer / generateAnswer: the activation record of the call
  seed,       \* main of the seeder: the batch loop
  up,         \* upsertDocument: the activation record of the running call
  conn,       \* the pooled client of upsertDocument: its transaction
  pr,         \* prune: the scan loop
  lastStore,  \* history: the committed upsert that last changed the table
  sp,         \* runSparql: the activation record of the running call
  disc,       \* runDiscovery: the activation record of the running call
  dd,         \* the filters and the deduplication of runDiscovery on one input
  ch,         \* buildChunks on one input
  rt,         \* a POST handler of the query API: its activation record
  calls,      \* answer / generateAnswer calls running side by side
  txs,        \* upsertDocument transactions running side by side
  ex,         \* extractMainTokens on one input
  home        \* HomePage: the state of the chat page and its request

vars == <<fw, fwHist, table, an, seed, up, conn, pr, lastStore, sp, disc, dd, ch,
          rt, calls, txs, ex, home>>

\* The variables of the seeder and the prune script.
ingestVars == <<seed, up, conn, pr, lastStore>>

\* The variables of discovery and of the chunker.
auxVars == <<sp, disc, dd, ch, rt, calls, txs, ex, home>>

\* The variables of the route handlers, the side-by-side runs and the
\* extractor.
moreVars == <<rt, calls, txs, ex, home>>

(***************************************************************************)
(* fetchWithRetry (src/scripts/db_ping.ts:129-152)                         *)
(***************************************************************************)

\* Largest `attempts` argument explored for fetchWithRetry.
MaxAttempts == 3

\* fetchWithRetry's default baseDelayMs.
DefaultBaseDelayMs == 500

\* HTTP statuses the network may answer with: both ends of 2xx, a redirect,
\* a client error, 429, both ends of 5xx and the first status above 5xx.
FetchStatuses == {200, 299, 301, 404, 429, 500, 599, 600}

\* What fetch() may throw: the AbortController's timeout, a network error.
FetchErrors == {"timeout", "network"}

StatusOutcome(s) == [kind |-> "status", status |-> s, err |-> ""]
ErrorOutcome(e) == [kind |-> "error", status |-> 0, err |-> e]

FetchOutcomes ==
  {StatusOutcome(s) : s \in FetchStatuses} \cup {ErrorOutcome(e) : e \in FetchErrors}

RECURSIVE Pow2(_)
Pow2(n) == IF n = 0 THEN 1 ELSE 2 * Pow2(n - 1)

\* Lines 139 and 147: Math.floor(Math.random() * 200) is any of 0..199.
JitterMs == 200
Jitters == 0..(JitterMs - 1)

\* baseDelayMs * Math.pow(2, i) + Math.floor(Math.random() * 200) with the
\* random part `jitter`.
Backoff(baseDelayMs, i, jitter) == baseDelayMs * Pow2(i) + jitter

\* The values `delay` can take in iteration i.
Delays(baseDelayMs, i) == { Backoff(baseDelayMs, i, jitter) : jitter \in Jitters }

\* Mutant: every non-2xx status is retried.
FwClassifyRetryAll(status) ==
  IF status >= 200 /\ status < 300 THEN "ok" ELSE "retry"

\* Lines 137-144: 2xx is returned, 429 and 5xx are retried, the rest is
\* returned at once.
FwClassify(status) ==
  IF status >= 200 /\ status < 300 THEN "ok"
  ELSE IF status = 429 \/ (status >= 500 /\ status <= 599) THEN "retry"
  ELSE "final"

\* Mutant: the loop runs once more than `attempts`.
FwLoopCondOffByOne(i, attempts) == i <= attempts

\* Line 131: the for loop's condition.
FwLoopCond(i, attempts) == i < attempts

\* The state of a call at entry: `let lastErr` is undefined (""), and the
\* fetch of iteration 0 is awaited.  `st` is "running" while a fetch is
\* awaited and "sleeping" while the timer of the backoff delay is.
FwStart(attempts, baseDelayMs) ==
  [ i |-> 0, attempts |-> attempts, baseDelayMs |-> baseDelayMs,
    lastErr |-> "", st |-> "running", res |-> 0, thrown |-> "" ]

\* No call is running.
FwIdle ==
  [ i |-> 0, attempts |-> 0, baseDelayMs |-> 0,
    lastErr |-> "", st |-> "idle", res |-> 0, thrown |-> "" ]

\* Whether the iteration with outcome o ends in the backoff delay (lines
\* 139-140 and 147-148).
FwSleeps(o) == o.kind = "error" \/ FwClassify(o.status) = "retry"

\* The fetch of iteration i settles with the outcome o (lines 135-148): a
\* response that is not retried is returned; otherwise lastErr is set by
\* the catch and the timer of the delay is awaited, i still the old i.
FwSettle(f, o) ==
  IF o.kind = "error"
    THEN [f EXCEPT !.lastErr = o.err, !.st = "sleeping"]
    ELSE CASE FwClassify(o.status) = "ok" ->
                [f EXCEPT !.st = "returned", !.res = o.status]
           [] FwClassify(o.status) = "retry" ->
                [f EXCEPT !.st = "sleeping"]
           [] OTHER ->
                [f EXCEPT !.st = "returned", !.res = o.status]

\* `log` is the outcomes of the fetches of a call, `sleeps` the iterations
\* that ended in a backoff delay, each by its baseDelayMs * 2^i, and `timer`
\* the delay of the running timer, jitter included (0 when none runs).  The
\* history is kept for the call of SpecFetch.
NoFwHist == [ log |-> <<>>, sleeps |-> <<>>, timer |-> 0 ]

\* The history of a call after the fetch of an iteration settled with o,
\* `delay` being the delay lines 139 and 147 compute.
FwRecord(h, f, o, delay) ==
  [ log |-> Append(h.log, o),
    sleeps |-> IF FwSleeps(o)
                 THEN Append(h.sleeps, Backoff(f.baseDelayMs, f.i, 0))
               ELSE h.sleeps,
    timer |-> IF FwSleeps(o) THEN delay ELSE 0 ]

\* Line 151: throw lastErr ?? new Error('Fetch failed after retries').
FwExhausted(f) ==
  [f EXCEPT !.st = "thrown",
            !.thrown = IF f.lastErr # "" THEN f.lastErr
                       ELSE "Fetch failed after retries"]

\* The backoff delay has elapsed (lines 140-141, 148): i++.
FwWake(f) == [f EXCEPT !.st = "running", !.i = @ + 1]

\* The timer fires: after i++ the next fetch is awaited, or the loop is
\* over and line 151 throws.
FwWoken(f) ==
  IF FwLoopCond(f.i + 1, f.attempts) THEN FwWake(f) ELSE FwExhausted(FwWake(f))

\* Response.ok: the status is in 200..299.
ResOk(status) == status >= 200 /\ status <= 299

(***************************************************************************)
(* Vectors, the embedding model and pgvector (external capabilities)       *)
(***************************************************************************)

\* Scores and distances are kept in thousandths: 0.25 is 250.
Scale == 1000

\* The dimension of the model's vectors (1536 in the schema).
VecDim == 5

Min(a, b) == IF a < b THEN a ELSE b

RECURSIVE Dot(_, _)
Dot(u, v) == IF u = <<>> THEN 0 ELSE Head(u) * Head(v) + Dot(Tail(u), Tail(v))

\* The Euclidean norm of a vector of the menu (each has an integer norm).
Norm(u) == CHOOSE n \in 0..Dot(u, u) : n * n = Dot(u, u)

\* The vectors the embedding model answers with.  Against the first one the
\* others have cosine 0.25, 0.2, 0.5, 0 and -1.
EmbedMenu ==
  << <<1, 0, 0, 0, 0>>, <<1, 3, 2, 1, 1>>, <<1, 2, 4, 2, 0>>,
     <<2, 2, 2, 2, 0>>, <<0, 0, 0, 0, 1>>, <<-1, 0, 0, 0, 0>> >>

\* openai.embeddings.create: deterministic for a text; which vector a text
\* gets is the model's business, here decided by the text's length.
EmbedModel(text) == EmbedMenu[(Len(text) % Len(EmbedMenu)) + 1]

RECURSIVE JoinComma(_)
JoinComma(vec) ==
  IF vec = <<>> THEN <<>>
  ELSE IF Len(vec) = 1 THEN <<Head(vec)>>
  ELSE <<Head(vec), ",">> \o JoinComma(Tail(vec))

\* toPgVector: the literal '[v1,v2,...]', as its sequence of tokens.
toPgVector(vec) == <<"[">> \o JoinComma(vec) \o <<"]">>

\* The $5::vector cast: the numbers of the literal.
ParseVector(lit) ==
  LET inner == SubSeq(lit, 2, Len(lit) - 1)
  IN  [j \in 1..((Len(inner) + 1) \div 2) |-> inner[2 * j - 1]]

\* pgvector's <=> under vector_cosine_ops: 1 - cosine similarity.
CosineDistance(u, v) == Scale - ((Scale * Dot(u, v)) \div (Norm(u) * Norm(v)))

\* cosineScoreFromDistance: 1 - Number(distance).
cosineScoreFromDistance(distance) == Scale - distance

(***************************************************************************)
(* The documents table (src/unnamed/part_001) and its statements           *)
(***************************************************************************)

EmptyTable == EmptyBag

RowsOf(tbl) == BagToSet(tbl)

\* The rows of one document.
DocRows(tbl, celex) == {r \in RowsOf(tbl) : r.celex = celex}

\* How many rows the table holds for (celex, chunk_id).
RowCount(tbl, celex, idx) ==
  LET hit == {r \in RowsOf(tbl) : r.celex = celex /\ r.chunk_id = idx}
  IN  BagCardinality([r \in hit |-> tbl[r]])

\* The row the INSERT of upsertDocument proposes: doc_id is the celex too.
NewRow(celex, idx, content, embLit) ==
  [ celex |-> celex, doc_id |-> celex, chunk_id |-> idx,
    content |-> content, embedding |-> ParseVector(embLit) ]

\* Mutant: a plain INSERT into a table without the unique index.
InsertRowNoConflict(tbl, row) == tbl (+) SetToBag({row})

\* INSERT ... ON CONFLICT (celex, chunk_id) DO UPDATE SET doc_id, content,
\* embedding = EXCLUDED.*: the row in conflict is updated in place.
UpsertRow(tbl, row) ==
  LET hit == {r \in RowsOf(tbl) : r.celex = row.celex /\ r.chunk_id = row.chunk_id}
  IN  IF hit = {} THEN tbl (+) SetToBag({row})
      ELSE (tbl (-) [r \in hit |-> tbl[r]])
             (+) [r \in {row} |-> BagCardinality([x \in hit |-> tbl[x]])]

\* Mutant: only the first passage of the document is deleted.
DeleteDocFirstRow(tbl, celex) ==
  LET keep == {r \in RowsOf(tbl) : r.celex # celex \/ r.chunk_id # 0}
  IN  [r \in keep |-> tbl[r]]

\* DELETE FROM documents WHERE celex = $1.
DeleteDoc(tbl, celex) ==
  LET keep == {r \in RowsOf(tbl) : r.celex # celex}
  IN  [r \in keep |-> tbl[r]]

\* The statements of one upsertDocument transaction from index i on.
RECURSIVE InsertFrom(_, _, _, _)
InsertFrom(tbl, celex, chunks, i) ==
  IF i > Len(chunks) THEN tbl
  ELSE InsertFrom(
         UpsertRow(tbl, NewRow(celex, i - 1, chunks[i],
                               toPgVector(EmbedModel(chunks[i])))),
         celex, chunks, i + 1)

\* A committed upsertDocument(celex, chunks).
StoreChunks(tbl, celex, chunks) == InsertFrom(tbl, celex, chunks, 1)

(***************************************************************************)
(* retrieve (src/lib/rag.ts:39-57)                                         *)
(***************************************************************************)

\* The rows of the table, one element per stored copy.
Copies(tbl) == {<<r, c>> \in RowsOf(tbl) \X (1..BagCardinality(tbl)) : c <= tbl[r]}

\* rows.map(...) of retrieve: the RetrievedChunk of a row for a query vector.
RetrievedChunk(r, qvec) ==
  [ celex |-> r.celex, doc_id |-> r.doc_id, chunk_id |-> r.chunk_id,
    content |-> r.content,
    score |-> Scale - CosineDistance(r.embedding, qvec) ]

\* LIMIT $2 over n rows.
QueryLimit(n, k) == Min(n, k)

\* The rows the database may read for ORDER BY embedding <=> $1: all of
\* them (a sequential scan), or the rows of the one list of idx_docs_vec
\* (ivfflat, vector_cosine_ops, lists = 100; part_001:13-14) that it probes
\* with the default ivfflat.probes = 1.  A list holds the rows nearest to
\* its centre, so rows with the same embedding are in the same list; which
\* rows share a list is the index's business, and a list may be empty.
ScannedRows(tbl) ==
  LET all == Copies(tbl)
  IN  { S \in SUBSET all :
          \A x \in S, y \in all : y[1].embedding = x[1].embedding => y \in S }

\* The first LIMIT $2 of the rows read, in the order of their distance;
\* rows at the same distance come in either order.
NearestOf(S, qvec, k) ==
  LET n == QueryLimit(Cardinality(S), k)
      dist(x) == CosineDistance(x[1].embedding, qvec)
      picks == { s \in [1..n -> S] :
                   /\ \A a, b \in 1..n : a < b =>
                        s[a] # s[b] /\ dist(s[a]) <= dist(s[b])
                   /\ \A x \in S :
                        (\A a \in 1..n : s[a] # x) =>
                          \A a \in 1..n : dist(s[a]) <= dist(x) }
  IN  { [a \in 1..n |-> RetrievedChunk(s[a][1], qvec)] : s \in picks }

\* SELECT ... ORDER BY embedding <=> $1 LIMIT $2 (rag.ts:42-48): every
\* answer the database may give.
QueryResults(tbl, qvec, k) ==
  UNION { NearestOf(S, qvec, k) : S \in ScannedRows(tbl) }

(***************************************************************************)
(* answer and generateAnswer (src/lib/rag.ts:59-109)                       *)
(***************************************************************************)

\* A text is a sequence of segments; a segment is one character, or a
\* literal of the code kept whole.
\* The characters that trim() removes and \s matches: the white space and
\* the line terminators of the language.  Those without an escape here
\* are named segments: "VT" (U+000B), "NBSP" (U+00A0), "BOM" (U+FEFF),
\* "LS" and "PS" (U+2028, U+2029), and the other space separators, U+1680,
\* U+2000 to U+200A, U+202F, U+205F and U+3000.
WhiteSpace ==
  { " ", "\n", "\t", "\r", "\f", "VT", "NBSP", "BOM", "LS", "PS",
    "OGHAM SPACE", "EN QUAD", "EM QUAD", "EN SPACE", "EM SPACE",
    "THREE-PER-EM SPACE", "FOUR-PER-EM SPACE", "SIX-PER-EM SPACE",
    "FIGURE SPACE", "PUNCTUATION SPACE", "THIN SPACE", "HAIR SPACE",
    "NARROW NBSP", "MEDIUM MATHEMATICAL SPACE", "IDEOGRAPHIC SPACE" }

IsSpace(c) == c \in WhiteSpace

RECURSIVE TrimStart(_)
TrimStart(t) ==
  IF t # <<>> /\ IsSpace(Head(t)) THEN TrimStart(Tail(t)) ELSE t

RECURSIVE TrimEnd(_)
TrimEnd(t) ==
  IF t # <<>> /\ IsSpace(t[Len(t)]) THEN TrimEnd(SubSeq(t, 1, Len(t) - 1)) ELSE t

\* String.prototype.trim.
Trim(t) == TrimEnd(TrimStart(t))

\* The relevance threshold of answer and generateAnswer: 0.25.
ScoreThreshold == 250

\* answer's fixed k, and generateAnswer's default k.
AnswerK == 5
GenerateAnswerDefaultK == 10

\* The fixed abstention sentence (written here without its diacritics).
AbstainText ==
  <<"Nu stiu.", " ", "Nu am suficiente informatii din contextul recuperat.">>

\* formatCitation: `#${celex}:${chunkId}`.
formatCitation(celex, chunkId) == "#" \o celex \o ":" \o ToString(chunkId)

RECURSIVE JoinBlocks(_)
JoinBlocks(blocks) ==
  IF blocks = <<>> THEN <<>>
  ELSE IF Len(blocks) = 1 THEN Head(blocks)
  ELSE Head(blocks) \o <<"\n\n">> \o JoinBlocks(Tail(blocks))

\* buildContext: `[${citation}]\n${content}` of every chunk, joined by a
\* blank line.
buildContext(chunks) ==
  JoinBlocks([j \in 1..Len(chunks) |->
    <<"[" \o formatCitation(chunks[j].celex, chunks[j].chunk_id) \o "]", "\n">>
      \o chunks[j].content])

\* Mutant: a top score equal to the threshold abstains too.
MustAbstainInclusive(chunks) ==
  Len(chunks) = 0 \/ chunks[1].score <= ScoreThreshold

\* !chunks.length || (chunks[0]?.score ?? 0) < 0.25
MustAbstain(chunks) ==
  Len(chunks) = 0 \/ chunks[1].score < ScoreThreshold

\* The value returned on the abstention path.
AbstainResult(fn) ==
  [ fn |-> fn, text |-> AbstainText, sources |-> <<>>, sourceEntries |-> <<>> ]

\* Mutant: only the passages that reach the threshold are listed.
GenerateResultAboveThreshold(fn, chunks, content) ==
  LET text == Trim(content)
      kept == SelectSeq(chunks, LAMBDA c : c.score >= ScoreThreshold)
      entries == [j \in 1..Len(kept) |->
                    [ citation |-> formatCitation(kept[j].celex, kept[j].chunk_id),
                      score |-> kept[j].score ]]
  IN  IF fn = "answer"
        THEN [ fn |-> fn, text |-> text,
               sources |-> [j \in 1..Len(entries) |-> entries[j].citation],
               sourceEntries |-> entries ]
        ELSE [ fn |-> fn, text |-> text,
               sources |-> [j \in 1..Len(kept) |->
                              [ celex |-> kept[j].celex,
                                chunk_id |-> kept[j].chunk_id,
                                relevance |-> kept[j].score ]],
               sourceEntries |-> <<>> ]

\* The value returned after generation: answer gives the citations and
\* (citation, score) entries, generateAnswer gives (celex, chunk_id,
\* relevance) as its sources.
GenerateResult(fn, chunks, content) ==
  LET text == Trim(content)
      entries == [j \in 1..Len(chunks) |->
                    [ citation |-> formatCitation(chunks[j].celex, chunks[j].chunk_id),
                      score |-> chunks[j].score ]]
  IN  IF fn = "answer"
        THEN [ fn |-> fn, text |-> text,
               sources |-> [j \in 1..Len(entries) |-> entries[j].citation],
               sourceEntries |-> entries ]
        ELSE [ fn |-> fn, text |-> text,
               sources |-> [j \in 1..Len(chunks) |->
                              [ celex |-> chunks[j].celex,
                                chunk_id |-> chunks[j].chunk_id,
                                relevance |-> chunks[j].score ]],
               sourceEntries |-> <<>> ]

NoResult == [ fn |-> "", text |-> <<>>, sources |-> <<>>, sourceEntries |-> <<>> ]

\* No call is running.
AnIdle ==
  [ fn |-> "", question |-> <<>>, k |-> 0, pc |-> "idle", qvec |-> <<>>,
    chunks |-> <<>>, context |-> <<>>, genCalls |-> 0, path |-> <<>>,
    result |-> NoResult ]

\* Entry of answer(query) or generateAnswer(question, k): retrieve is called.
AnStart(fn, question, k) ==
  [ AnIdle EXCEPT !.fn = fn, !.question = question, !.k = k,
                  !.pc = "RETRIEVE", !.path = <<"RETRIEVE">> ]

\* Mutant: the generator is called before the evidence is weighed.
AnDecideGenerateFirst(a) ==
  IF MustAbstain(a.chunks)
    THEN [ a EXCEPT !.pc = "DONE", !.genCalls = @ + 1,
                    !.path = @ \o <<"DECIDE", "ABSTAIN", "DONE">>,
                    !.result = AbstainResult(a.fn) ]
    ELSE [ a EXCEPT !.pc = "GENERATE", !.genCalls = @ + 1,
                    !.context = buildContext(a.chunks),
                    !.path = @ \o <<"DECIDE", "GENERATE">> ]

\* The code that runs when retrieve has resolved (rag.ts:65-72, 93-98): the
\* abstention is returned, or the context is built and the completion is
\* requested.
AnDecide(a) ==
  IF MustAbstain(a.chunks)
    THEN [ a EXCEPT !.pc = "DONE",
                    !.path = @ \o <<"DECIDE", "ABSTAIN", "DONE">>,
                    !.result = AbstainResult(a.fn) ]
    ELSE [ a EXCEPT !.pc = "GENERATE", !.genCalls = @ + 1,
                    !.context = buildContext(a.chunks),
                    !.path = @ \o <<"DECIDE", "GENERATE">> ]

\* A rejected await: the call throws.
AnFail(a) == [ a EXCEPT !.pc = "FAILED", !.path = Append(@, "FAILED") ]

(***************************************************************************)
(* Text helpers of the seeder (src/scripts/db_ping.ts:268-381)             *)
(***************************************************************************)

\* One segment per character; a character outside ASCII is written as a
\* named segment: "NBSP" (U+00A0), "BULLET" (U+2022), "a-breve", "a-circ",
\* "i-circ", "s-comma", "t-comma" and their capitals "A-breve", ...
UpperAscii ==
  << "A", "B", "C", "D", "E", "F", "G", "H", "I", "J", "K", "L", "M",
     "N", "O", "P", "Q", "R", "S", "T", "U", "V", "W", "X", "Y", "Z",
     "A-breve", "A-circ", "I-circ", "S-comma", "T-comma" >>

LowerAscii ==
  << "a", "b", "c", "d", "e", "f", "g", "h", "i", "j", "k", "l", "m",
     "n", "o", "p", "q", "r", "s", "t", "u", "v", "w", "x", "y", "z",
     "a-breve", "a-circ", "i-circ", "s-comma", "t-comma" >>

\* The case folding of a regular expression's i flag.
ToLower(c) ==
  IF \E j \in 1..Len(UpperAscii) : UpperAscii[j] = c
    THEN LowerAscii[CHOOSE j \in 1..Len(UpperAscii) : UpperAscii[j] = c]
    ELSE c

LowerText(t) == [j \in 1..Len(t) |-> ToLower(t[j])]

\* The length of the longest prefix of t made of characters of the set S.
RECURSIVE RunLen(_, _)
RunLen(t, S) ==
  IF t # <<>> /\ Head(t) \in S THEN 1 + RunLen(Tail(t), S) ELSE 0

\* t.replace(/[S]{minLen,}/g, repl): every maximal run of characters of S
\* that is at least minLen long becomes repl.
RECURSIVE ReplaceRuns(_, _, _, _)
ReplaceRuns(t, S, minLen, repl) ==
  IF t = <<>> THEN <<>>
  ELSE LET n == RunLen(t, S)
       IN  IF n = 0
             THEN <<Head(t)>> \o ReplaceRuns(Tail(t), S, minLen, repl)
           ELSE IF n >= minLen
             THEN repl \o ReplaceRuns(SubSeq(t, n + 1, Len(t)), S, minLen, repl)
           ELSE SubSeq(t, 1, n) \o ReplaceRuns(SubSeq(t, n + 1, Len(t)), S, minLen, repl)

\* cleanText (lines 268-275).
cleanText(s) ==
  Trim(ReplaceRuns(
         ReplaceRuns(
           ReplaceRuns(
             [j \in 1..Len(s) |-> IF s[j] = "NBSP" THEN " " ELSE s[j]],
             {" ", "\t"}, 1, <<" ">>),
           {"\r", "\f"}, 1, <<"\n">>),
         {"\n"}, 3, <<"\n", "\n">>))

\* Whether t starts with the characters of w.
StartsWith(t, w) == Len(t) >= Len(w) /\ SubSeq(t, 1, Len(w)) = w

HeadingWords ==
  { <<"a", "r", "t", "i", "c", "l", "e">>,
    <<"a", "r", "t", "i", "c", "o", "l", "u", "l">>,
    <<"a", "r", "t", ".">>,
    <<"s", "e", "c", "t", "i", "o", "n">>,
    <<"c", "a", "p", "i", "t", "o", "l", "u", "l">>,
    <<"c", "h", "a", "p", "t", "e", "r">>,
    <<"a", "n", "n", "e", "x">> }

RomanNumeralChars == {"I", "V", "X", "L", "C"}

\* isLikelyHeading (lines 277-282): /^(Article|...|Annex)/i, or
\* /^[IVXLC]+\.?\s/.
isLikelyHeading(text) ==
  LET t == Trim(text)
      n == RunLen(t, RomanNumeralChars)
      after == SubSeq(t, n + 1, Len(t))
  IN  /\ t # <<>>
      /\ \/ \E w \in HeadingWords : StartsWith(LowerText(t), w)
         \/ /\ n >= 1
            /\ \/ (after # <<>> /\ IsSpace(after[1]))
               \/ (Len(after) >= 2 /\ after[1] = "." /\ IsSpace(after[2]))

\* Mutant: consecutive headings are not coalesced.
CoalesceHeadingsNone(tokens) == tokens

\* Lines 314-323: consecutive heading tokens become one, joined by newlines.
RECURSIVE CoalesceInto(_, _)
CoalesceInto(merged, tokens) ==
  IF tokens = <<>> THEN merged
  ELSE LET t == Head(tokens)
           n == Len(merged)
       IN  IF n > 0 /\ merged[n].type = "heading" /\ t.type = "heading"
             THEN CoalesceInto(
                    [merged EXCEPT ![n].text = @ \o <<"\n">> \o t.text],
                    Tail(tokens))
             ELSE CoalesceInto(Append(merged, t), Tail(tokens))

CoalesceHeadings(tokens) == CoalesceInto(<<>>, tokens)

\* Lines 306-313: the token of one element, or none for an empty text.
NodeTokens(node) ==
  LET text0 == cleanText(node.text)
      text == IF node.tag = <<"l", "i">> THEN <<"BULLET", " ">> \o text0 ELSE text0
  IN  IF text0 = <<>> THEN <<>>
      ELSE << [ type |-> IF Head(node.tag) = "h" \/ isLikelyHeading(text)
                           THEN "heading" ELSE "text",
                text |-> text ] >>

RECURSIVE NodesTokens(_)
NodesTokens(nodes) ==
  IF nodes = <<>> THEN <<>> ELSE NodeTokens(Head(nodes)) \o NodesTokens(Tail(nodes))

\* extractMainTokens (lines 284-324) from the elements main.find(...) gives:
\* each is its tag name and its text.
extractMainTokens(nodes) == CoalesceHeadings(NodesTokens(nodes))

SentenceEnd == {".", "!", "?"}

UpperLetters == {UpperAscii[j] : j \in 1..Len(UpperAscii)}

\* text.split(/(?<=[.!?])\s+(?=[A-Z...])/u) of a text whose white space is
\* single spaces: `acc` is the part being read.
RECURSIVE SplitSentences(_, _, _)
SplitSentences(text, j, acc) ==
  IF j > Len(text) THEN <<acc>>
  ELSE IF /\ text[j] = " " /\ j > 1 /\ j < Len(text)
          /\ text[j - 1] \in SentenceEnd /\ text[j + 1] \in UpperLetters
    THEN <<acc>> \o SplitSentences(text, j + 1, <<>>)
    ELSE SplitSentences(text, j + 1, Append(acc, text[j]))

\* sentenceSplit (lines 326-333).
sentenceSplit(paragraph) ==
  LET text == Trim(ReplaceRuns(paragraph, WhiteSpace, 1, <<" ">>))
  IN  IF text = <<>> THEN <<>> ELSE SplitSentences(text, 1, <<>>)

\* Mutant: flush pushes the cleaned buffer even when it is empty.
FlushAlways(st) ==
  [ chunks |-> Append(st.chunks, cleanText(st.current)), current |-> <<>> ]

\* flush (lines 339-343).
Flush(st) ==
  LET c == cleanText(st.current)
  IN  [ chunks |-> IF c # <<>> THEN Append(st.chunks, c) ELSE st.chunks,
        current |-> <<>> ]

\* Mutant: the heading is appended to the buffer without the flush.
AddHeadingNoFlush(st, text) ==
  [ st EXCEPT !.current =
      @ \o (IF @ # <<>> THEN <<"\n">> ELSE <<>>) \o text \o <<"\n">> ]

\* Lines 347-351: a heading token.
AddHeading(st, text) ==
  LET st1 == IF Len(Trim(st.current)) > 0 THEN Flush(st) ELSE st
  IN  [ st1 EXCEPT !.current =
          @ \o (IF @ # <<>> THEN <<"\n">> ELSE <<>>) \o text \o <<"\n">> ]

\* Mutant: the buffer is flushed when the hard split ends.
RECURSIVE HardSplitFlushEnd(_, _, _, _, _)
HardSplitFlushEnd(st, s, start, minSize, maxSize) ==
  IF start >= Len(s) THEN Flush(st)
  ELSE LET end == Min(start + maxSize, Len(s))
           slice == SubSeq(s, start + 1, end)
           st1 == IF /\ Len(st.current) + Len(slice) + 1 > maxSize
                     /\ Len(st.current) >= minSize
                    THEN Flush(st) ELSE st
           st2 == [ st1 EXCEPT !.current =
                      @ \o (IF @ # <<>> THEN <<" ">> ELSE <<>>) \o slice ]
       IN  HardSplitFlushEnd(st2, s, end, minSize, maxSize)

\* Lines 362-371: the hard split of a long sentence from offset `start`.
RECURSIVE HardSplit(_, _, _, _, _)
HardSplit(st, s, start, minSize, maxSize) ==
  IF start >= Len(s) THEN st
  ELSE LET end == Min(start + maxSize, Len(s))
           slice == SubSeq(s, start + 1, end)
           st1 == IF /\ Len(st.current) + Len(slice) + 1 > maxSize
                     /\ Len(st.current) >= minSize
                    THEN Flush(st) ELSE st
           st2 == [ st1 EXCEPT !.current =
                      @ \o (IF @ # <<>> THEN <<" ">> ELSE <<>>) \o slice ]
       IN  HardSplit(st2, s, end, minSize, maxSize)

\* Mutant: the last branch replaces the buffer without flushing it.
AddSentenceNoFlush(st, s, minSize, maxSize) ==
  LET tryAdd == IF Len(st.current) > 0 THEN st.current \o <<" ">> \o s ELSE s
  IN  IF Len(tryAdd) <= maxSize THEN [st EXCEPT !.current = tryAdd]
      ELSE IF Len(st.current) >= minSize THEN [Flush(st) EXCEPT !.current = s]
      ELSE IF Len(s) >= maxSize THEN HardSplit(st, s, 0, minSize, maxSize)
      ELSE [st EXCEPT !.current = s]

\* Lines 354-376: one sentence.
AddSentence(st, s, minSize, maxSize) ==
  LET tryAdd == IF Len(st.current) > 0 THEN st.current \o <<" ">> \o s ELSE s
  IN  IF Len(tryAdd) <= maxSize THEN [st EXCEPT !.current = tryAdd]
      ELSE IF Len(st.current) >= minSize THEN [Flush(st) EXCEPT !.current = s]
      ELSE IF Len(s) >= maxSize THEN HardSplit(st, s, 0, minSize, maxSize)
      ELSE [ (IF st.current # <<>> THEN Flush(st) ELSE st) EXCEPT !.current = s ]

RECURSIVE AddSentences(_, _, _, _)
AddSentences(st, sentences, minSize, maxSize) ==
  IF sentences = <<>> THEN st
  ELSE AddSentences(AddSentence(st, Head(sentences), minSize, maxSize),
                    Tail(sentences), minSize, maxSize)

RECURSIVE AddTokens(_, _, _, _)
AddTokens(st, tokens, minSize, maxSize) ==
  IF tokens = <<>> THEN st
  ELSE LET t == Head(tokens)
           st1 == IF t.type = "heading" THEN AddHeading(st, t.text)
                  ELSE AddSentences(st, sentenceSplit(t.text), minSize, maxSize)
       IN  AddTokens(st1, Tail(tokens), minSize, maxSize)

\* buildChunks (lines 335-381).
buildChunks(tokens, minSize, maxSize) ==
  LET st == AddTokens([chunks |-> <<>>, current |-> <<>>], tokens, minSize, maxSize)
  IN  IF Len(Trim(st.current)) > 0 THEN Flush(st).chunks ELSE st.chunks

\* The sizes processItem passes to buildChunks (line 491).
ChunkMinSize == 800
ChunkMaxSize == 1000

(***************************************************************************)
(* The status markers (lines 409-425 and 595-617)                          *)
(***************************************************************************)

\* Whether the words, separated by white space (\s+), match t from its
\* first character on; letters are compared without case (the i flag).
RECURSIVE MatchWords(_, _)
MatchWords(t, words) ==
  IF words = <<>> THEN TRUE
  ELSE LET w == Head(words)
           rest == SubSeq(t, Len(w) + 1, Len(t))
           gap == RunLen(rest, WhiteSpace)
       IN  /\ StartsWith(LowerText(t), w)
           /\ \/ Len(words) = 1
              \/ gap >= 1 /\ MatchWords(SubSeq(rest, gap + 1, Len(rest)), Tail(words))

\* re.test(html) for a marker.
MarkerFound(html, words) ==
  \E j \in 1..Len(html) : MatchWords(SubSeq(html, j, Len(html)), words)

\* NO_LONGER_IN_FORCE_MARKERS of the seeder (lines 410-418).
SeedMarkers ==
  { << <<"n", "o">>, <<"l", "o", "n", "g", "e", "r">>, <<"i", "n">>, <<"f", "o", "r", "c", "e">> >>,
    << <<"c", "e", "a", "s", "e", "d">>, <<"t", "o">>, <<"b", "e">>, <<"i", "n">>, <<"f", "o", "r", "c", "e">> >>,
    << <<"n", "u">>, <<"m", "a", "i">>, <<"e", "s", "t", "e">>, <<"i-circ", "n">>, <<"v", "i", "g", "o", "a", "r", "e">> >>,
    << <<"n", "u">>, <<"m", "a", "i">>, <<"e", "s", "t", "e">>, <<"i", "n">>, <<"v", "i", "g", "o", "a", "r", "e">> >>,
    << <<"a", "b", "r", "o", "g", "a", "r", "e">>, <<"i", "m", "p", "l", "i", "c", "i", "t", "a-breve">> >>,
    << <<"a", "b", "r", "o", "g", "a", "t">> >>,
    << <<"e", "n", "d">>, <<"o", "f">>, <<"v", "a", "l", "i", "d", "i", "t", "y">> >> }

\* MARKERS of the prune script (lines 595-602): no "End of validity".
PruneMarkers ==
  { << <<"n", "o">>, <<"l", "o", "n", "g", "e", "r">>, <<"i", "n">>, <<"f", "o", "r", "c", "e">> >>,
    << <<"c", "e", "a", "s", "e", "d">>, <<"t", "o">>, <<"b", "e">>, <<"i", "n">>, <<"f", "o", "r", "c", "e">> >>,
    << <<"n", "u">>, <<"m", "a", "i">>, <<"e", "s", "t", "e">>, <<"i-circ", "n">>, <<"v", "i", "g", "o", "a", "r", "e">> >>,
    << <<"n", "u">>, <<"m", "a", "i">>, <<"e", "s", "t", "e">>, <<"i", "n">>, <<"v", "i", "g", "o", "a", "r", "e">> >>,
    << <<"a", "b", "r", "o", "g", "a", "r", "e">>, <<"i", "m", "p", "l", "i", "c", "i", "t", "a-breve">> >>,
    << <<"a", "b", "r", "o", "g", "a", "t">> >> }

\* Mutant: only the word `ceased` is looked for.
isNoLongerInForceOneMarker(html, markers) ==
  \E m \in {<< <<"c", "e", "a", "s", "e", "d">> >>} : MarkerFound(html, m)

\* isNoLongerInForce(html).matched, for a list of markers.
isNoLongerInForce(html, markers) == \E m \in markers : MarkerFound(html, m)

(***************************************************************************)
(* Discovery: the records of runDiscovery (db_ping.ts:223-255)             *)
(***************************************************************************)

\* A field of a SPARQL binding that is absent: b.celex?.value is undefined.
Undefined == <<"undefined">>

\* Whether a string value is truthy: neither undefined nor empty.
Truthy(v) == v # Undefined /\ v # <<>>

Digits == <<"0", "1", "2", "3", "4", "5", "6", "7", "8", "9">>

IsDigit(c) == \E j \in 1..Len(Digits) : Digits[j] = c

DigitValue(c) == (CHOOSE j \in 1..Len(Digits) : Digits[j] = c) - 1

RECURSIVE DigitsValue(_, _)
DigitsValue(s, acc) ==
  IF s = <<>> THEN acc ELSE DigitsValue(Tail(s), 10 * acc + DigitValue(Head(s)))

\* A number is mant * 10^exp, or is not finite: NaN (mant 0), Infinity
\* (mant 1) and -Infinity (mant -1).
NaN == [ finite |-> FALSE, mant |-> 0, exp |-> 0 ]

Infinity == [ finite |-> FALSE, mant |-> 1, exp |-> 0 ]

RECURSIVE Pow10(_)
Pow10(n) == IF n = 0 THEN 1 ELSE 10 * Pow10(n - 1)

RECURSIVE NumDigits(_)
NumDigits(m) == IF m < 10 THEN 1 ELSE 1 + NumDigits(m \div 10)

AllDigits(s) == \A j \in 1..Len(s) : IsDigit(s[j])

\* The first place of s that holds a character of cs, 0 when there is none.
FirstOf(s, cs) ==
  IF \E j \in 1..Len(s) : s[j] \in cs
    THEN CHOOSE j \in 1..Len(s) : s[j] \in cs /\ \A i \in 1..(j - 1) : s[i] \notin cs
    ELSE 0

\* m * 10^e for m >= 0, written in one way: an integer below 10^9 has exp 0
\* and a fraction has no trailing zero in mant.
RECURSIVE Normal(_, _)
Normal(m, e) ==
  IF m = 0 THEN [ finite |-> TRUE, mant |-> 0, exp |-> 0 ]
  ELSE IF e > 0 /\ m < Pow10(8) THEN Normal(10 * m, e - 1)
  ELSE IF e < 0 /\ m % 10 = 0 THEN Normal(m \div 10, e + 1)
  ELSE [ finite |-> TRUE, mant |-> m, exp |-> e ]

\* The double nearest to m * 10^e, for m of at most nine digits: Infinity
\* above the largest double (1.7976931348623157e308) and 0 below half the
\* smallest one (2.4703282292062327e-324); between the two the nine digits
\* are kept, which order the value against every integer as the double does.
Rounded(m, e) ==
  LET y == Normal(m, e)
      d == NumDigits(y.mant)
      p == y.exp + d - 1
      m9 == y.mant * Pow10(9 - d)
  IN  IF y.mant = 0 THEN y
      ELSE IF p > 308 \/ (p = 308 /\ m9 > 179769313) THEN Infinity
      ELSE IF p < -324 \/ (p = -324 /\ m9 <= 247032822) THEN Normal(0, 0)
      ELSE y

Negated(y) == [ y EXCEPT !.mant = 0 - @ ]

\* StrUnsignedDecimalLiteral: Infinity, or digits with an optional point and
\* an optional exponent part.
DecimalOf(t) ==
  LET k == FirstOf(t, {"e", "E"})
      body == IF k = 0 THEN t ELSE SubSeq(t, 1, k - 1)
      expo == IF k = 0 THEN <<>> ELSE SubSeq(t, k + 1, Len(t))
      exDigits == IF expo # <<>> /\ expo[1] \in {"+", "-"} THEN Tail(expo) ELSE expo
      dot == FirstOf(body, {"."})
      ip == IF dot = 0 THEN body ELSE SubSeq(body, 1, dot - 1)
      fp == IF dot = 0 THEN <<>> ELSE SubSeq(body, dot + 1, Len(body))
  IN  IF t = <<"I", "n", "f", "i", "n", "i", "t", "y">> THEN Infinity
      ELSE IF ~(/\ AllDigits(ip) /\ AllDigits(fp) /\ ip \o fp # <<>>
                /\ k # 0 => (exDigits # <<>> /\ AllDigits(exDigits)))
        THEN NaN
      ELSE Rounded(DigitsValue(ip \o fp, 0),
                   (IF expo # <<>> /\ expo[1] = "-" THEN 0 - DigitsValue(exDigits, 0)
                    ELSE DigitsValue(exDigits, 0)) - Len(fp))

\* The digits of NonDecimalIntegerLiteral, in either case.
RadixDigits == <<"0", "1", "2", "3", "4", "5", "6", "7", "8", "9",
                 "a", "b", "c", "d", "e", "f">>

RadixDigitValue(c) ==
  LET l == IF \E j \in 1..Len(UpperAscii) : UpperAscii[j] = c
             THEN LowerAscii[CHOOSE j \in 1..Len(UpperAscii) : UpperAscii[j] = c]
             ELSE c
  IN  IF \E j \in 1..Len(RadixDigits) : RadixDigits[j] = l
        THEN (CHOOSE j \in 1..Len(RadixDigits) : RadixDigits[j] = l) - 1
        ELSE Len(RadixDigits)

RECURSIVE RadixValue(_, _, _)
RadixValue(s, radix, acc) ==
  IF s = <<>> THEN acc
  ELSE RadixValue(Tail(s), radix, radix * acc + RadixDigitValue(Head(s)))

\* The radix of a literal that starts 0x, 0o or 0b, in either case; 0 for
\* any other string.
RadixOf(t) ==
  IF Len(t) < 3 \/ t[1] # "0" THEN 0
  ELSE IF t[2] \in {"x", "X"} THEN 16
  ELSE IF t[2] \in {"o", "O"} THEN 8
  ELSE IF t[2] \in {"b", "B"} THEN 2
  ELSE 0

\* Number(s), StringToNumber: white space and line terminators at either end
\* are dropped; nothing is 0; a literal of radix 16, 8 or 2 takes no sign; a
\* decimal literal takes one sign; any other string is NaN.
NumberOf(s) ==
  LET t == Trim(s)
      radix == RadixOf(t)
  IN  IF t = <<>> THEN Normal(0, 0)
      ELSE IF radix # 0
        THEN (IF \A j \in 3..Len(t) : RadixDigitValue(t[j]) < radix
                THEN Normal(RadixValue(SubSeq(t, 3, Len(t)), radix, 0), 0)
                ELSE NaN)
      ELSE IF t[1] = "-" THEN Negated(DecimalOf(Tail(t)))
      ELSE IF t[1] = "+" THEN DecimalOf(Tail(t))
      ELSE DecimalOf(t)

\* y < n for a finite number y and an integer n.  With exp = 1 the number
\* is mant * 10, which is below n when mant is at most (n - 1) \div 10; with
\* a larger exp it is 10^10 or more on its side of 0, beyond every integer
\* n of the model; with exp < 0 it is below n when its floor is.
NumLess(y, n) ==
  IF y.exp = 0 THEN y.mant < n
  ELSE IF y.exp = 1 THEN y.mant <= (n - 1) \div 10
  ELSE IF y.exp > 1 THEN y.mant < 0
  ELSE IF 0 - y.exp > 9 THEN (IF y.mant < 0 THEN 0 - 1 ELSE 0) < n
  ELSE (y.mant \div Pow10(0 - y.exp)) < n

\* s.slice(a, b) for 0 <= a <= b.
Slice(s, a, b) == SubSeq(s, a + 1, Min(b, Len(s)))

\* Whether t holds the characters of w in a row: t.includes(w).
Includes(t, w) ==
  \E j \in 0..(Len(t) - Len(w)) : SubSeq(t, j + 1, j + Len(w)) = w

ToUpper(c) ==
  IF \E j \in 1..Len(LowerAscii) : LowerAscii[j] = c
    THEN UpperAscii[CHOOSE j \in 1..Len(LowerAscii) : LowerAscii[j] = c]
    ELSE c

UpperText(t) == [j \in 1..Len(t) |-> ToUpper(t[j])]

\* [A-Z]
AsciiCapitals == { UpperAscii[j] : j \in 1..26 }

\* Lines 238-239: celex.match(/^3(\d{4})[A-Z]/), then Number of the group.
CelexYear(celex) ==
  IF /\ Len(celex) >= 6
     /\ celex[1] = "3"
     /\ \A j \in 2..5 : IsDigit(celex[j])
     /\ celex[6] \in AsciiCapitals
    THEN NumberOf(SubSeq(celex, 2, 5))
    ELSE NaN

\* Line 229: the language of a binding.
LangOf(langVal) ==
  IF langVal # Undefined /\ Includes(UpperText(langVal), <<"/", "R", "O", "U">>)
    THEN "ro" ELSE "en"

\* The fields of a binding that runDiscovery reads for its decisions.
Binding(celex, title, lang, issued) ==
  [ celex |-> celex, title |-> title, lang |-> lang, issued |-> issued ]

\* Mutant: the year of the id is not looked at.
KeepBindingIssuedOnly(b, sinceYear) ==
  /\ Truthy(b.celex)
  /\ Truthy(b.title)
  /\ (sinceYear # 0 /\ Truthy(b.issued)) =>
       LET y == NumberOf(Slice(b.issued, 0, 4))
       IN  ~(y.finite /\ NumLess(y, sinceYear))

\* Lines 231-241: whether a binding passes the filters.  sinceYear is 0
\* where the code holds undefined, NaN or 0, which `if (sinceYear)` treats
\* alike.
KeepBinding(b, sinceYear) ==
  /\ Truthy(b.celex)
  /\ Truthy(b.title)
  /\ sinceYear # 0 =>
       IF Truthy(b.issued)
         THEN LET y == NumberOf(Slice(b.issued, 0, 4))
              IN  ~(y.finite /\ NumLess(y, sinceYear))
         ELSE LET y2 == CelexYear(b.celex)
              IN  ~(y2.finite /\ NumLess(y2, sinceYear))

\* Lines 242-243: the record pushed for a binding; urlLang is the language
\* segment of urlTxt.
DiscItemOf(b) ==
  [ celex |-> b.celex, title |-> b.title, lang |-> LangOf(b.lang),
    issued |-> b.issued,
    urlLang |-> IF LangOf(b.lang) = "ro" THEN "RO" ELSE "EN" ]

\* Lines 223-244: the records of the bindings of one page, in their order.
RECURSIVE PageItems(_, _)
PageItems(bindings, sinceYear) ==
  IF bindings = <<>> THEN <<>>
  ELSE (IF KeepBinding(Head(bindings), sinceYear)
          THEN <<DiscItemOf(Head(bindings))>> ELSE <<>>)
       \o PageItems(Tail(bindings), sinceYear)

\* Mutant: the first record of an id is always the one kept.
DedupStepKeepFirst(acc, it) ==
  IF \E j \in 1..Len(acc) : acc[j].celex = it.celex THEN acc ELSE Append(acc, it)

\* Lines 250-254: one record met by the loop over items; acc is the values
\* of byCelex in insertion order.
DedupStep(acc, it) ==
  LET hit == { j \in 1..Len(acc) : acc[j].celex = it.celex }
  IN  IF hit = {} THEN Append(acc, it)
      ELSE LET j == CHOOSE j \in hit : TRUE
           IN  IF acc[j].lang # "ro" /\ it.lang = "ro"
                 THEN [acc EXCEPT ![j] = it] ELSE acc

\* Lines 248-255: Array.from(byCelex.values()).
RECURSIVE DedupInto(_, _)
DedupInto(acc, items) ==
  IF items = <<>> THEN acc
  ELSE DedupInto(DedupStep(acc, Head(items)), Tail(items))

DedupByCelex(items) == DedupInto(<<>>, items)

\* The ids, titles, languages and issued dates of the bindings explored.
CelexChars1 == <<"3", "2", "0", "1", "6", "R", "0", "6", "7", "9">>
CelexChars2 == <<"3", "2", "0", "1", "9", "R", "1", "2", "3", "4">>
TitleA == <<"a">>
TitleB == <<"b">>
LangROU == <<"http://publications.europa.eu/resource/authority/language", "/", "R", "O", "U">>
LangENG == <<"http://publications.europa.eu/resource/authority/language", "/", "E", "N", "G">>
LangLiteralRo == <<"r", "o">>
Issued2015 == <<"2", "0", "1", "5", "-", "0", "6", "-", "0", "1">>
Issued2020 == <<"2", "0", "2", "0", "-", "0", "1", "-", "3", "1">>
IssuedOther == <<"n", "/", "a">>
IssuedPadded == <<" ", "2", "0", "1", "5", "-", "0", "6", "-", "0", "1">>

\* Bindings an endpoint may answer with: ids of 2016 and 2019 with and
\* without an issued date on either side of the minimum year, in either
\* language, and bindings without id, without title, with an empty title,
\* with a date that is no date, with a date after a space (its first four
\* characters are the number 201), with the language literal of the CDM
\* query and without language.
BindingPool ==
  { Binding(CelexChars1, TitleA, LangROU, Undefined),
    Binding(CelexChars1, TitleB, LangENG, Undefined),
    Binding(CelexChars1, TitleA, LangENG, Issued2020),
    Binding(CelexChars1, TitleB, LangROU, IssuedOther),
    Binding(CelexChars1, Undefined, LangROU, Issued2020),
    Binding(CelexChars2, TitleA, LangROU, Undefined),
    Binding(CelexChars2, TitleB, LangENG, Undefined),
    Binding(CelexChars2, TitleB, LangENG, Issued2015),
    Binding(CelexChars2, TitleA, LangROU, IssuedPadded),
    Binding(CelexChars2, TitleA, LangLiteralRo, Undefined),
    Binding(CelexChars2, TitleA, Undefined, Issued2020),
    Binding(CelexChars2, <<>>, LangENG, Undefined),
    Binding(Undefined, TitleA, LangROU, Issued2020) }

\* Largest number of bindings of one answer.
MaxBindings == 3

BindingLists == UNION { [1..n -> BindingPool] : n \in 0..MaxBindings }

\* --since-year: absent (0), or 2018.
SinceYears == {0, 2018}

DdIdle ==
  [ pc |-> "idle", bindings |-> <<>>, sinceYear |-> 0, items |-> <<>>,
    result |-> <<>> ]

(***************************************************************************)
(* Discovery: runSparql and runDiscovery (db_ping.ts:154-247)              *)
(***************************************************************************)

\* Lines 37-40: the endpoints in their order.
SparqlEndpoints ==
  << "https://op.europa.eu/webapi/rdf/sparql",
     "https://publications.europa.eu/webapi/rdf/sparql" >>

\* The attempts and the base delay runSparql passes to fetchWithRetry.
SparqlFetchAttempts == 3
SparqlFetchBaseDelayMs == 700

\* The default of --limit, and the largest --pages explored.
DiscLimit == 10
MaxPages == 3

\* buildQueryELI / buildQueryCDM (lines 65-127): a query is its shape and
\* its LIMIT and OFFSET.
Query(shape, limit, offset) == [ shape |-> shape, limit |-> limit, offset |-> offset ]

NoQuery == Query("", 0, 0)

\* What an endpoint answers to one attempt.
SparqlOutcomes ==
  { StatusOutcome(200), StatusOutcome(404), StatusOutcome(503),
    ErrorOutcome("network") }

\* The content-type header of a response; none reads as ''.
ContentTypes ==
  { <<"application/sparql-results+json", ";", "charset=utf-8">>,
    <<"application/json">>, <<"text/html">>, <<>> }

\* Lines 171 and 178: the content type names JSON.
IsJsonType(ctype) ==
  \/ Includes(ctype, <<"application/sparql-results+json">>)
  \/ Includes(ctype, <<"application/json">>)

\* What res.json() resolves with: a result set, or JSON of another shape.
ResultSet(bindings) == [ results |-> TRUE, bindings |-> bindings ]

NoData == [ results |-> FALSE, bindings |-> <<>> ]

DiscBindingLists ==
  { <<>>,
    << Binding(CelexChars1, TitleA, LangROU, Undefined) >>,
    << Binding(CelexChars1, TitleB, LangENG, Undefined),
       Binding(CelexChars2, TitleA, LangROU, Undefined) >> }

SparqlData == { ResultSet(bl) : bl \in DiscBindingLists } \cup { NoData }

\* Lines 212 and 216: data?.results?.bindings ?? [].
BindingsOf(data) == IF data.results THEN data.bindings ELSE <<>>

Call(ep, method) == [ ep |-> ep, method |-> method ]

\* No call of runSparql or runDiscovery is running, and the functions under
\* study have no input.
SpIdle ==
  [ pc |-> "idle", query |-> NoQuery, ep |-> 0, calls |-> <<>>,
    lastErr |-> "", data |-> NoData, thrown |-> "" ]
DiscIdle ==
  [ pc |-> "idle", pages |-> 0, sinceYear |-> 0, page |-> 0, items |-> <<>>,
    log |-> <<>>, result |-> <<>>, thrown |-> "" ]
ChIdle ==
  [ pc |-> "idle", tokens |-> <<>>, minSize |-> 0, maxSize |-> 0,
    chunks |-> <<>> ]

\* A field k of a request body: absent, a number (an integer or not), or
\* a value of another type.
KUndefined == [ type |-> "undefined", integer |-> FALSE, value |-> 0 ]
KNumber(n) == [ type |-> "number", integer |-> TRUE, value |-> n ]
KFraction == [ type |-> "number", integer |-> FALSE, value |-> 1 ]

\* What req.json() gives: `json` is whether the body parsed; a text field
\* that is absent is Undefined.
Body(json, query, question, message, k) ==
  [ json |-> json, query |-> query, question |-> question,
    message |-> message, k |-> k ]

\* The value `{}`.
EmptyBody == Body(TRUE, Undefined, Undefined, Undefined, KUndefined)

\* No handler is running.  `invoked` is whether answer or generateAnswer
\* was called; `status` is the status of the response.
RtIdle ==
  [ pc |-> "idle", route |-> "", body |-> EmptyBody, invoked |-> FALSE,
    status |-> 0 ]

CallsIdle == <<>>

TxsIdle == <<>>

ExIdle == [ pc |-> "idle", nodes |-> <<>>, tokens |-> <<>> ]

\* The chat page as mounted (page.tsx:7-9): no item, an empty input, no
\* request.  `inflight` holds the requests sent and not yet settled, and
\* `sends` is history: how many requests were sent.
HomeIdle ==
  [ items |-> <<>>, input |-> <<>>, pending |-> FALSE, inflight |-> <<>>,
    sends |-> 0 ]

MoreIdle ==
  /\ rt = RtIdle /\ calls = CallsIdle /\ txs = TxsIdle /\ ex = ExIdle
  /\ home = HomeIdle

AuxIdle ==
  /\ sp = SpIdle /\ disc = DiscIdle /\ dd = DdIdle /\ ch = ChIdle
  /\ MoreIdle

(***************************************************************************)
(* The seeder: main, processItem, upsertDocument (db_ping.ts:427-577)      *)
(***************************************************************************)

\* The documents of the model.
Celex1 == "32016R0679"
Celex2 == "32019R1234"

\* Largest number of records of one run.
MaxItems == 2

\* The attempts and the base delay processItem passes to fetchWithRetry.
ItemFetchAttempts == 5
ItemFetchBaseDelayMs == 800

\* What the site answers to a page request of the seeder.
ItemOutcomes ==
  { StatusOutcome(200), StatusOutcome(404), StatusOutcome(503),
    ErrorOutcome("network") }

\* Pages the site may serve.  A page is the text of the elements that
\* main.find('h1, h2, h3, h4, p, li') gives, and the text of the rest of the
\* markup (`extra`).
PageEmpty == [ extra |-> <<>>, nodes |-> <<>> ]
PageOne == [ extra |-> <<>>, nodes |-> << [tag |-> <<"h", "2">>, text |-> <<"A", "r", "t", ".", " ", "1">>], [tag |-> <<"p">>, text |-> <<"a", "b", ".">>] >> ]
PageTwo ==
  [ extra |-> <<>>,
    nodes |-> << [tag |-> <<"p">>, text |-> <<"I", ".", " ", "x">>], [tag |-> <<"p">>, text |-> <<"a", "b">>],
                 [tag |-> <<"h", "3">>, text |-> <<"B">>], [tag |-> <<"l", "i">>, text |-> <<"c">>] >> ]
PageRepealed ==
  [ extra |-> <<"N", "o", " ", "l", "o", "n", "g", "e", "r", " ", "i", "n", " ", "f", "o", "r", "c", "e">>,
    nodes |-> << [tag |-> <<"p">>, text |-> <<"c", "d">>] >> ]

Pages == {PageEmpty, PageOne, PageTwo, PageRepealed}

RECURSIVE NodesText(_)
NodesText(nodes) ==
  IF nodes = <<>> THEN <<>>
  ELSE <<"<">> \o Head(nodes).text \o NodesText(Tail(nodes))

\* The markup as the marker scan reads it: the texts, with "<" where tags
\* stand between them.
HtmlOf(page) == page.extra \o NodesText(page.nodes)

\* The records of a run: --celex gives RO pages, discovery RO or EN ones.
Item(celex, urlLang) == [ celex |-> celex, urlLang |-> urlLang ]

ItemPool == { Item(Celex1, "RO"), Item(Celex2, "EN") }

ItemLists == UNION { [1..n -> ItemPool] : n \in 0..MaxItems }

\* The batch loop of main: `n` is items.length, `i` the index of the loop
\* and `todo` the records from items[i] on.  `outcomes` is history: how each
\* record before items[i] ended.
SeedIdle ==
  [ pc |-> "idle", n |-> 0, i |-> 0, todo |-> <<>>, noEmbed |-> FALSE,
    outcomes |-> <<>> ]

UpIdle ==
  [ pc |-> "idle", celex |-> "", chunks |-> <<>>, embeddings |-> <<>>,
    i |-> 0, err |-> "", released |-> 0, stmts |-> <<>>,
    before |-> EmptyTable, prevSame |-> FALSE ]

ConnIdle == [ tx |-> "none", work |-> EmptyTable ]

NoStore == [ valid |-> FALSE, celex |-> "", chunks |-> <<>> ]

\* Mutant: the connection is asked for at entry, before any passage is
\* embedded.
UpStartConnectFirst(celex, chunks, tbl, last) ==
  [ UpIdle EXCEPT !.pc = "connect",
                  !.celex = celex, !.chunks = chunks, !.before = tbl,
                  !.prevSame = (last.valid /\ last.celex = celex
                                  /\ last.chunks = chunks) ]

\* Entry of upsertDocument(celex, chunks): the embedding loop starts, or
\* with no chunk, pool.connect() is awaited.  `before` and `prevSame` are
\* history: the table at entry, and whether the table's last change was a
\* committed upsert of the same chunks for the same document.
UpStart(celex, chunks, tbl, last) ==
  [ UpIdle EXCEPT !.pc = IF Len(chunks) = 0 THEN "connect" ELSE "embed",
                  !.celex = celex, !.chunks = chunks, !.before = tbl,
                  !.prevSame = (last.valid /\ last.celex = celex
                                  /\ last.chunks = chunks) ]

\* Line 438: what the table shows other sessions while the transaction
\* begun by BEGIN is open.
TableDuringTx(committed, work) == committed

\* Mutant: a failed record ends the run.
SeedCatchAbort(s, outcome) ==
  [ s EXCEPT !.pc = "aborted", !.outcomes = Append(@, outcome) ]

\* Lines 559-561: the catch of the batch loop logs the failure; the loop
\* goes on with i + 1.
SeedCatch(s, outcome) ==
  [ s EXCEPT !.pc = "loop", !.i = @ + 1, !.todo = Tail(@),
             !.outcomes = Append(@, outcome) ]

\* Lines 551-558: processItem returned its report, which is logged.
SeedReport(s, outcome) ==
  [ s EXCEPT !.pc = "loop", !.i = @ + 1, !.todo = Tail(@),
             !.outcomes = Append(@, outcome) ]

\* items[i]
CurItem == Head(seed.todo)

----------------------------------------------------------------------------
(* The actions of a seeder run. *)

\* main before its batch loop (lines 512-546).
SeedStarted(items, noEmbed) ==
  [ SeedIdle EXCEPT !.pc = "loop", !.n = Len(items), !.todo = items,
                    !.noEmbed = noEmbed ]

\* main starts with its list of records and --no-embed.
SeedStart ==
  /\ seed.pc = "idle"
  /\ pr.pc = "idle"
  /\ \E items \in ItemLists, noEmbed \in BOOLEAN :
       seed' = SeedStarted(items, noEmbed)
  /\ UNCHANGED <<fw, fwHist, table, an, up, conn, pr, lastStore, auxVars>>

\* The head of the batch loop (line 547): the next record's page is
\* requested (line 466), or the loop is over.  The upsertDocument call of
\* the record before is gone.
SeedLoop ==
  /\ seed.pc = "loop"
  /\ IF seed.i < seed.n
       THEN /\ seed' = [seed EXCEPT !.pc = "fetch1"]
            /\ fw' = FwStart(ItemFetchAttempts, ItemFetchBaseDelayMs)
       ELSE /\ seed' = [seed EXCEPT !.pc = "summary"]
            /\ fw' = FwIdle
  /\ up' = UpIdle
  /\ UNCHANGED <<fwHist, table, an, conn, pr, lastStore, auxVars>>

\* The fetchWithRetry call of processItem has ended as f (lines 466-476):
\* its throw goes to the batch loop; a response that is not ok is tried
\* again on the EN page when the URL holds /RO/, and has its body read
\* otherwise; an ok response is read.
ItemFetchEnds(f) ==
  IF f.st = "thrown"
    THEN seed' = SeedCatch(seed, "fetch-threw") /\ fw' = FwIdle
  ELSE IF ~ResOk(f.res) /\ seed.pc = "fetch1" /\ CurItem.urlLang = "RO"
    THEN /\ seed' = [seed EXCEPT !.pc = "fetch2"]
         /\ fw' = FwStart(ItemFetchAttempts, ItemFetchBaseDelayMs)
  ELSE IF ~ResOk(f.res)
    THEN seed' = [seed EXCEPT !.pc = "errBody"] /\ fw' = FwIdle
  ELSE seed' = [seed EXCEPT !.pc = "body"] /\ fw' = FwIdle

\* A fetch of the call settles (lines 135-148): the call returns its
\* response to processItem, or it starts the timer of its backoff delay,
\* any of Delays(baseDelayMs, i), and waits for it.  How long the timer runs
\* is not kept: nothing reads it.
ItemFetch ==
  /\ seed.pc \in {"fetch1", "fetch2"}
  /\ fw.st = "running"
  /\ \E o \in ItemOutcomes :
       LET f == FwSettle(fw, o)
       IN  IF f.st = "sleeping" THEN fw' = f /\ UNCHANGED seed
           ELSE ItemFetchEnds(f)
  /\ UNCHANGED <<fwHist, table, an, up, conn, pr, lastStore, auxVars>>

\* The timer of the backoff delay fires (lines 140, 148): the next fetch
\* of the call is awaited, or the call throws to processItem (line 151).
ItemBackoff ==
  /\ seed.pc \in {"fetch1", "fetch2"}
  /\ fw.st = "sleeping"
  /\ LET f == FwWoken(fw)
     IN  IF f.st = "running" THEN fw' = f /\ UNCHANGED seed
         ELSE ItemFetchEnds(f)
  /\ UNCHANGED <<fwHist, table, an, up, conn, pr, lastStore, auxVars>>

\* res.text() of a response that is not ok resolves or rejects (lines
\* 473-475): either way processItem throws and the record has failed.
ItemErrBody ==
  /\ seed.pc = "errBody"
  /\ seed' = SeedCatch(seed, "fetch-failed")
  /\ UNCHANGED <<fw, fwHist, table, an, up, conn, pr, lastStore, auxVars>>

\* res.text() resolves with the page (lines 476-498) or rejects: a page with
\* a status marker is skipped with a report of zero chunks; otherwise the
\* page is parsed and chunked, and upsertDocument is called unless
\* --no-embed.
ItemBody ==
  /\ seed.pc = "body"
  /\ \/ /\ seed' = SeedCatch(seed, "fetch-failed")
        /\ UNCHANGED up
     \/ \E page \in Pages :
          LET chunks == buildChunks(extractMainTokens(page.nodes),
                                    ChunkMinSize, ChunkMaxSize)
          IN  IF isNoLongerInForce(HtmlOf(page), SeedMarkers)
                THEN /\ seed' = SeedReport(seed, "skipped")
                     /\ UNCHANGED up
              ELSE IF seed.noEmbed
                THEN /\ seed' = SeedReport(seed, "dry-run")
                     /\ UNCHANGED up
              ELSE /\ seed' = [seed EXCEPT !.pc = "upsert"]
                   /\ up' = UpStart(CurItem.celex, chunks, table, lastStore)
  /\ UNCHANGED <<fw, fwHist, table, an, conn, pr, lastStore, auxVars>>

\* embed(chunks[i]) resolves or rejects (lines 431-434, 393-402): a 429
\* whose message names the quota is rethrown as the quota error, any other
\* error as it is; either ends upsertDocument and the record.
UpEmbed ==
  /\ seed.pc = "upsert"
  /\ up.pc = "embed"
  /\ \/ /\ up' = [ up EXCEPT
                     !.embeddings = Append(@, toPgVector(EmbedModel(up.chunks[up.i + 1]))),
                     !.i = @ + 1,
                     !.pc = IF up.i + 1 = Len(up.chunks) THEN "connect" ELSE "embed" ]
        /\ UNCHANGED seed
     \/ \E kind \in {"embed-transient", "embed-quota"} :
          /\ up' = [up EXCEPT !.pc = "thrown", !.err = kind]
          /\ seed' = SeedCatch(seed, kind)
  /\ UNCHANGED <<fw, fwHist, table, an, conn, pr, lastStore, auxVars>>

\* pool.connect() resolves, and BEGIN is sent, or rejects (line 436).
UpConnect ==
  /\ seed.pc = "upsert"
  /\ up.pc = "connect"
  /\ \/ /\ up' = [up EXCEPT !.pc = "begin"]
        /\ conn' = ConnIdle
        /\ UNCHANGED seed
     \/ /\ up' = [up EXCEPT !.pc = "thrown", !.err = "connect"]
        /\ seed' = SeedCatch(seed, "storage")
        /\ UNCHANGED conn
  /\ UNCHANGED <<fw, fwHist, table, an, pr, lastStore, auxVars>>

\* BEGIN succeeds and the first INSERT (or, with no chunk, COMMIT) is sent,
\* or fails and ROLLBACK is sent (lines 438, 451-452).
UpBegin ==
  /\ seed.pc = "upsert"
  /\ up.pc = "begin"
  /\ \/ /\ up' = [ up EXCEPT !.pc = IF Len(up.chunks) = 0 THEN "commit" ELSE "insert",
                             !.i = 0, !.stmts = Append(@, "BEGIN") ]
        /\ conn' = [ tx |-> "open", work |-> table ]
     \/ /\ up' = [ up EXCEPT !.pc = "rollback", !.err = "BEGIN",
                             !.stmts = Append(@, "BEGIN failed") ]
        /\ UNCHANGED conn
  /\ UNCHANGED <<fw, fwHist, table, an, seed, pr, lastStore, auxVars>>

\* The INSERT of chunk i succeeds, or fails and leaves the transaction
\* aborted (lines 447-449).
UpInsert ==
  /\ seed.pc = "upsert"
  /\ up.pc = "insert"
  /\ \/ LET work == UpsertRow(conn.work,
                              NewRow(up.celex, up.i, up.chunks[up.i + 1],
                                     up.embeddings[up.i + 1]))
        IN  /\ conn' = [conn EXCEPT !.work = work]
            /\ table' = TableDuringTx(table, work)
            /\ up' = [ up EXCEPT !.i = @ + 1, !.stmts = Append(@, "INSERT"),
                                 !.pc = IF up.i + 1 = Len(up.chunks)
                                          THEN "commit" ELSE "insert" ]
     \/ /\ conn' = [conn EXCEPT !.tx = "aborted"]
        /\ up' = [ up EXCEPT !.pc = "rollback", !.err = "INSERT",
                             !.stmts = Append(@, "INSERT failed") ]
        /\ UNCHANGED table
  /\ UNCHANGED <<fw, fwHist, an, seed, pr, lastStore, auxVars>>

\* COMMIT succeeds: the work of the transaction becomes the table, the
\* client is released and processItem reports (lines 450, 455, 499-509).  Or
\* COMMIT fails: the transaction is gone and ROLLBACK is sent.
UpCommit ==
  /\ seed.pc = "upsert"
  /\ up.pc = "commit"
  /\ \/ /\ table' = conn.work
        /\ conn' = ConnIdle
        /\ up' = [ up EXCEPT !.pc = "returned", !.released = @ + 1,
                             !.stmts = Append(@, "COMMIT") ]
        /\ seed' = SeedReport(seed, "stored")
        /\ lastStore' = [ valid |-> TRUE, celex |-> up.celex, chunks |-> up.chunks ]
     \/ /\ conn' = [conn EXCEPT !.tx = "aborted"]
        /\ up' = [ up EXCEPT !.pc = "rollback", !.err = "COMMIT",
                             !.stmts = Append(@, "COMMIT failed") ]
        /\ UNCHANGED <<table, seed, lastStore>>
  /\ UNCHANGED <<fw, fwHist, an, pr, auxVars>>

\* Mutant: the client is not released after ROLLBACK.
UpRollbackNoRelease ==
  /\ seed.pc = "upsert"
  /\ up.pc = "rollback"
  /\ \E ok \in BOOLEAN :
       up' = [ up EXCEPT !.pc = "thrown",
                         !.err = IF ok THEN @ ELSE "ROLLBACK",
                         !.stmts = Append(@, IF ok THEN "ROLLBACK"
                                             ELSE "ROLLBACK failed") ]
  /\ conn' = ConnIdle
  /\ seed' = SeedCatch(seed, "storage")
  /\ UNCHANGED <<fw, fwHist, table, an, pr, lastStore, auxVars>>

\* ROLLBACK succeeds or fails (lines 451-456): the work of the transaction
\* is dropped either way, the client is released, and the error (the first
\* one, or that of ROLLBACK) goes to the batch loop.
UpRollback ==
  /\ seed.pc = "upsert"
  /\ up.pc = "rollback"
  /\ \E ok \in BOOLEAN :
       up' = [ up EXCEPT !.pc = "thrown", !.released = @ + 1,
                         !.err = IF ok THEN @ ELSE "ROLLBACK",
                         !.stmts = Append(@, IF ok THEN "ROLLBACK"
                                             ELSE "ROLLBACK failed") ]
  /\ conn' = ConnIdle
  /\ seed' = SeedCatch(seed, "storage")
  /\ UNCHANGED <<fw, fwHist, table, an, pr, lastStore, auxVars>>

\* The summary is printed (lines 564-576) and the process ends.
SeedSummary ==
  /\ seed.pc = "summary"
  /\ seed' = SeedIdle
  /\ UNCHANGED <<fw, fwHist, table, an, up, conn, pr, lastStore, auxVars>>

(***************************************************************************)
(* The prune script (db_ping.ts:584-669)                                   *)
(***************************************************************************)

\* The celex values in the order of ORDER BY celex.
CelexOrder == <<Celex1, Celex2>>

\* listCelex: SELECT DISTINCT celex FROM documents ORDER BY celex.
listCelex(tbl) == SelectSeq(CelexOrder, LAMBDA c : DocRows(tbl, c) # {})

\* --limit of the prune script: absent, or a number.
PruneLimits == { [set |-> FALSE, n |-> 0], [set |-> TRUE, n |-> 1] }

\* `before` is history: the table when the script started.
PrIdle ==
  [ pc |-> "idle", toScan |-> <<>>, i |-> 1, dryRun |-> FALSE,
    removed |-> 0, flagged |-> <<>>, skipped |-> <<>>,
    before |-> EmptyTable ]

\* listCelex resolves (lines 625-628); a rejection ends the script.
PruneStart ==
  /\ pr.pc = "idle"
  /\ seed.pc = "idle"
  /\ \/ \E dryRun \in BOOLEAN, limit \in PruneLimits :
          LET celexes == listCelex(table)
              toScan == IF limit.set
                          THEN SubSeq(celexes, 1, Min(limit.n, Len(celexes)))
                          ELSE celexes
          IN  pr' = [ PrIdle EXCEPT !.pc = IF toScan = <<>> THEN "summary" ELSE "scan",
                                    !.toScan = toScan, !.dryRun = dryRun,
                                    !.before = table ]
     \/ pr' = [PrIdle EXCEPT !.pc = "failed", !.before = table]
  /\ UNCHANGED <<fw, fwHist, table, an, seed, up, conn, lastStore, auxVars>>

\* After one document of the scan.
PrNext(p) ==
  [ p EXCEPT !.i = @ + 1,
             !.pc = IF p.i + 1 > Len(p.toScan) THEN "summary" ELSE "scan" ]

\* The fetch of fetchText settles (lines 607-608): a rejection or a
\* response that is not ok goes to the catch of the loop (lines 645-647);
\* the body of an ok response is asked for (line 609).
PruneScan ==
  /\ pr.pc = "scan"
  /\ \/ pr' = PrNext([pr EXCEPT !.skipped = Append(@, pr.toScan[pr.i])])
     \/ pr' = [pr EXCEPT !.pc = "scanBody"]
  /\ UNCHANGED <<fw, fwHist, table, an, seed, up, conn, lastStore, auxVars>>

\* res.text() of fetchText resolves with the page or rejects (lines 609,
\* 633-647): a page with a marker is flagged, and deleted unless --dry-run.
PruneBody ==
  /\ pr.pc = "scanBody"
  /\ \/ pr' = PrNext([pr EXCEPT !.skipped = Append(@, pr.toScan[pr.i])])
     \/ \E page \in Pages :
          IF isNoLongerInForce(HtmlOf(page), PruneMarkers)
            THEN LET p == [pr EXCEPT !.flagged = Append(@, pr.toScan[pr.i])]
                 IN  pr' = IF pr.dryRun THEN PrNext(p) ELSE [p EXCEPT !.pc = "delete"]
            ELSE pr' = PrNext(pr)
  /\ UNCHANGED <<fw, fwHist, table, an, seed, up, conn, lastStore, auxVars>>

\* The DELETE resolves or rejects (lines 638-640, 645-647).
PruneDelete ==
  /\ pr.pc = "delete"
  /\ \/ /\ table' = DeleteDoc(table, pr.toScan[pr.i])
        /\ pr' = PrNext([pr EXCEPT !.removed = @ + 1])
        /\ lastStore' = NoStore
     \/ /\ pr' = PrNext([pr EXCEPT !.skipped = Append(@, pr.toScan[pr.i])])
        /\ UNCHANGED <<table, lastStore>>
  /\ UNCHANGED <<fw, fwHist, an, seed, up, conn, auxVars>>

\* The summary is printed (lines 650-653) and the process ends.
PruneSummary ==
  /\ pr.pc \in {"summary", "failed"}
  /\ pr' = PrIdle
  /\ UNCHANGED <<fw, fwHist, table, an, seed, up, conn, lastStore, auxVars>>

----------------------------------------------------------------------------
(* The specification of the seeder and the prune script, run one at a time
   against the same table. *)

Init ==
  /\ fw = FwIdle
  /\ fwHist = NoFwHist
  /\ table = EmptyTable
  /\ an = AnIdle
  /\ seed = SeedIdle
  /\ up = UpIdle
  /\ conn = ConnIdle
  /\ pr = PrIdle
  /\ lastStore = NoStore
  /\ AuxIdle

Next ==
  \/ SeedStart \/ SeedLoop
  \/ ItemFetch \/ ItemBackoff \/ ItemErrBody \/ ItemBody
  \/ UpEmbed \/ UpConnect \/ UpBegin \/ UpInsert \/ UpCommit \/ UpRollback
  \/ SeedSummary
  \/ PruneStart \/ PruneScan \/ PruneBody \/ PruneDelete \/ PruneSummary

Spec == Init /\ [][Next]_vars

\* One run of the seeder on an empty table, every step of which is taken in
\* the end: the event loop runs each continuation once its await settles.
InitSeedRun ==
  /\ fw = FwIdle
  /\ fwHist = NoFwHist
  /\ table = EmptyTable
  /\ an = AnIdle
  /\ \E items \in ItemLists, noEmbed \in BOOLEAN :
       seed = SeedStarted(items, noEmbed)
  /\ up = UpIdle
  /\ conn = ConnIdle
  /\ pr = PrIdle
  /\ lastStore = NoStore
  /\ AuxIdle

NextSeedRun ==
  \/ SeedLoop \/ ItemFetch \/ ItemBackoff \/ ItemErrBody \/ ItemBody
  \/ UpEmbed \/ UpConnect \/ UpBegin \/ UpInsert \/ UpCommit \/ UpRollback
  \/ SeedSummary

SpecSeedRun == InitSeedRun /\ [][NextSeedRun]_vars /\ WF_vars(NextSeedRun)

----------------------------------------------------------------------------
(* Claims about the store and the seeder. *)

\* The row upsertDocument writes at index idx (0-based) of the running call.
NewRowAt(idx) ==
  NewRow(up.celex, idx, up.chunks[idx + 1], up.embeddings[idx + 1])

UpsertEnded == up.pc \in {"returned", "thrown"}

\* A row of the document that the call wrote and that was not there before.
HoldsNew(r) ==
  /\ r.chunk_id < Len(up.embeddings)
  /\ r = NewRowAt(r.chunk_id)
  /\ r \notin RowsOf(up.before)

\* A row of the document that is as it was before the call, where the call
\* had no equal row to write.
HoldsOld(r) ==
  /\ r \in RowsOf(up.before)
  /\ r.chunk_id < Len(up.embeddings) => r # NewRowAt(r.chunk_id)

RollbackRestores == up.pc = "thrown" => table = up.before

MixedRows ==
  \E r1, r2 \in DocRows(table, up.celex) : HoldsNew(r1) /\ HoldsOld(r2)

\* C3: upsertDocument is atomic per document: when the call throws, the
\* table is as it was before the call, and after the call has returned or
\* thrown the rows of the document are never a mix of new passages at some
\* indices and old passages at others.
C3_UpsertAtomic == RollbackRestores /\ (UpsertEnded => ~MixedRows)

\* C3: a call that returned and left a new passage at index 0 next to the
\* old passage at index 1.
C3_Witness ==
  /\ up.pc = "returned"
  /\ Len(up.chunks) = 1
  /\ \E r1, r2 \in DocRows(table, up.celex) :
       /\ r1.chunk_id = 0 /\ HoldsNew(r1)
       /\ r2.chunk_id = 1 /\ HoldsOld(r2)

\* C4: after a successful upsertDocument(D, chunks) with n chunks the rows
\* of D are exactly the n new passages at the indices 0..n-1, whatever D
\* held before.
C4_ReingestReplaces ==
  up.pc = "returned" =>
    DocRows(table, up.celex) = { NewRowAt(idx) : idx \in 0..(Len(up.chunks) - 1) }

\* C4: a successful call with fewer chunks than the document held, after
\* which the document holds more rows than the call had chunks.
C4_Witness ==
  /\ up.pc = "returned"
  /\ Cardinality(DocRows(up.before, up.celex)) > Len(up.chunks)
  /\ Cardinality(DocRows(table, up.celex)) > Len(up.chunks)

\* The indices the table holds for a document.
IndicesOf(tbl, celex) == { r.chunk_id : r \in DocRows(tbl, celex) }

\* C5: in every state of the table, after committed upserts, rolled back
\* upserts and prune deletions, the indices of each document are
\* 0..m-1 for some m.
C5_IndicesContiguous ==
  \A r \in RowsOf(table) :
    IndicesOf(table, r.celex) = 0..(Cardinality(IndicesOf(table, r.celex)) - 1)

\* C5: an upsert was rolled back after a prune deletion was the last change
\* of the table, which still holds the two passages a committed upsert left.
C5_Witness ==
  /\ up.pc = "thrown"
  /\ up.err = "INSERT"
  /\ lastStore = NoStore
  /\ IndicesOf(table, up.celex) = {0, 1}

NoDuplicateRows(tbl) ==
  \A r \in RowsOf(tbl) : RowCount(tbl, r.celex, r.chunk_id) = 1

\* C6: ingesting a document again with the same chunks (the embedding model
\* being a function of the text) leaves the table as the first ingestion
\* left it, and the table never holds two rows with the same
\* (celex, chunk_id).
C6_IngestIdempotent ==
  /\ NoDuplicateRows(table)
  /\ (up.pc = "returned" /\ up.prevSame) => table = up.before

\* C6: the second of two committed upserts of the same two chunks.
C6_Witness ==
  /\ up.pc = "returned"
  /\ up.prevSame
  /\ Len(up.chunks) = 2
  /\ up.stmts = <<"BEGIN", "INSERT", "INSERT", "COMMIT">>

\* The failures of a record that the claim names: of the fetch, of storage.
RecordFailures == {"fetch-threw", "fetch-failed", "storage"}

SomeRecordFailed ==
  \E j \in 1..Len(seed.outcomes) : seed.outcomes[j] \in RecordFailures

AllProcessed == seed.pc = "summary" /\ Len(seed.outcomes) = seed.n

\* C7: once the processing of a record has failed, the run still comes to
\* its summary, with every record of the list processed.
C7_FailuresDoNotAbort == [](SomeRecordFailed => <>AllProcessed)

\* C7: the summary of a run of two records, the first failed, the second
\* stored.
C7_Witness ==
  /\ seed.pc = "summary"
  /\ seed.n = 2
  /\ seed.outcomes[1] \in RecordFailures
  /\ seed.outcomes[2] = "stored"

QuotaHit ==
  \E j \in 1..Len(seed.outcomes) : seed.outcomes[j] = "embed-quota"

\* C8: once the embedding of a passage of a record has failed with the
\* quota error, no later record is fetched, embedded or stored.
C8_QuotaAbortsRun ==
  QuotaHit => seed.pc \notin {"fetch1", "fetch2", "errBody", "body", "upsert"}

\* C8: a record stored after the quota error of the record before it.
C8_Witness ==
  /\ seed.pc = "loop"
  /\ seed.outcomes = <<"embed-quota", "stored">>
  /\ up.pc = "returned"

\* The fetch of the RO page of the record is awaited: the EN page has not
\* been tried.
FetchingPrimary == seed.pc = "fetch1" /\ CurItem.urlLang = "RO"

\* C11: a record whose RO page could not be fetched, by a status that is
\* not retried or by running out of attempts, is not given up as failed
\* before its EN page has been tried: from the fetch of the RO page the run
\* never steps straight to the next record.
C11_FallbackBeforeGivingUp ==
  [][FetchingPrimary => seed'.pc # "loop"]_vars

\* C11: the EN page of a record is being fetched after its RO page failed.
C11_Witness == seed.pc = "fetch2" /\ CurItem.urlLang = "RO"

\* The embedding of a passage is awaited and no attempt has failed yet.
EmbedAwaited == up.pc = "embed" /\ up.err = ""

\* C27: when the embedding of a passage is rejected with an error that is
\* not the quota error, the call is still at the embedding of that passage,
\* to attempt it again, and the record is not yet reported.
C27_TransientEmbedRetried ==
  [][(EmbedAwaited /\ up'.err = "embed-transient") =>
       /\ up'.pc = "embed" /\ up'.i = up.i
       /\ seed'.outcomes = seed.outcomes]_vars

\* C27: the record was reported failed on the one rejected attempt to
\* embed its first passage.
C27_Witness ==
  /\ up.pc = "thrown" /\ up.err = "embed-transient"
  /\ up.i = 0 /\ up.embeddings = <<>>
  /\ seed.pc = "loop"
  /\ seed.outcomes = <<"embed-transient">>

\* The passages of the page that carries a status marker, had it been
\* parsed.
RepealedChunks ==
  buildChunks(extractMainTokens(PageRepealed.nodes), ChunkMinSize, ChunkMaxSize)

IsRepealedChunk(c) == \E j \in 1..Len(RepealedChunks) : RepealedChunks[j] = c

\* No passage of the marked page was handed to upsertDocument, written in
\* a transaction or stored.
RepealedNeverHandled ==
  /\ \A j \in 1..Len(up.chunks) : ~IsRepealedChunk(up.chunks[j])
  /\ \A r \in RowsOf(conn.work) : ~IsRepealedChunk(r.content)
  /\ \A r \in RowsOf(table) : ~IsRepealedChunk(r.content)

\* processItem returns the report of a skipped record.
SkipStep ==
  seed.pc = "body" /\ seed'.outcomes = Append(seed.outcomes, "skipped")

\* C29: a page with a status marker is never parsed into passages that are
\* embedded or stored; the step that skips it returns its report to the
\* batch loop without an error, starts no upsertDocument and leaves the
\* table, of that and of every other document, as it was.
C29_RepealedSkipped ==
  /\ []RepealedNeverHandled
  /\ [][SkipStep =>
          /\ seed'.pc = "loop"
          /\ up' = up /\ conn' = conn
          /\ table' = table /\ lastStore' = lastStore]_vars

\* C29: the second record of a run was skipped after the first was stored.
C29_Witness ==
  /\ seed.outcomes = <<"stored", "skipped">>
  /\ table # EmptyTable
  /\ RepealedChunks # <<>>

\* upsertDocument is past its embedding loop: the connection is awaited or
\* held, or a statement was sent.
UpStoring ==
  \/ up.pc \in {"connect", "begin", "insert", "commit", "rollback"}
  \/ up.stmts # <<>>
  \/ up.released > 0

\* C32: upsertDocument asks for a connection only when every passage has
\* its embedding; and when the embedding of a passage failed, no statement
\* was sent, no connection was taken, and the table, the rows of the
\* document included, is as it was at entry.
C32_EmbedBeforeStore ==
  /\ UpStoring => Len(up.embeddings) = Len(up.chunks)
  /\ up.err \in {"embed-transient", "embed-quota"} =>
       /\ ~UpStoring
       /\ table = up.before
       /\ DocRows(table, up.celex) = DocRows(up.before, up.celex)

\* C32: the embedding of the second passage of a document failed, the
\* first passage embedded, while the document has rows in the table.
C32_Witness ==
  /\ up.pc = "thrown"
  /\ up.err \in {"embed-transient", "embed-quota"}
  /\ Len(up.embeddings) = 1
  /\ Len(up.chunks) > 1
  /\ DocRows(table, up.celex) # {}

\* How many statements of the call so far are among `kinds`.
StmtCount(kinds) ==
  Cardinality({ i \in 1..Len(up.stmts) : up.stmts[i] \in kinds })

\* upsertDocument returned or threw.
UpEnded == up.pc \in {"returned", "thrown"}

\* pool.connect() resolved in this call: BEGIN is the first thing sent on
\* the client.
ClientTaken ==
  up.pc \in {"begin", "insert", "commit", "rollback"} \/ up.stmts # <<>>

\* What ends a transaction: a COMMIT that succeeded, or a ROLLBACK sent.
TxEnders == {"COMMIT", "ROLLBACK", "ROLLBACK failed"}

\* C33: the client taken from the pool is released once, when the call
\* ends and not before, and never when none was taken; a call whose BEGIN
\* succeeded ends with exactly one of a successful COMMIT and a ROLLBACK
\* attempt, its last statement, and no call sends two of them; COMMIT is
\* sent once at most, after BEGIN and one successful INSERT per passage and
\* nothing else.
C33_TransactionProtocol ==
  /\ up.released = (IF UpEnded /\ ClientTaken THEN 1 ELSE 0)
  /\ StmtCount(TxEnders) <= 1
  /\ (UpEnded /\ StmtCount({"BEGIN"}) = 1) =>
       /\ StmtCount(TxEnders) = 1
       /\ up.stmts[Len(up.stmts)] \in TxEnders
  /\ \A i \in 1..Len(up.stmts) :
       up.stmts[i] \in {"COMMIT", "COMMIT failed"} =>
         /\ i = Len(up.chunks) + 2
         /\ up.stmts[1] = "BEGIN"
         /\ \A j \in 2..(i - 1) : up.stmts[j] = "INSERT"

\* C33: COMMIT failed after the INSERT of two passages, the ROLLBACK of
\* the catch failed too, and the client was released.
C33_Witness ==
  /\ up.pc = "thrown"
  /\ up.stmts = <<"BEGIN", "INSERT", "INSERT", "COMMIT failed", "ROLLBACK failed">>
  /\ up.released = 1

\* The prune script has come to its summary.
Pruned == pr.pc = "summary"

\* The documents the scan flagged: their page was fetched and matched a
\* marker.
PruneMatched == { pr.flagged[j] : j \in 1..Len(pr.flagged) }

\* C35: when prune has come to its summary, every document of toScan has
\* had its turn; without --dry-run every document whose page matched a
\* marker has no row, and every other document (not matched, not scanned,
\* or its page not fetched) has the rows it had when the script started;
\* with --dry-run the table is as it was at the start.
C35_PruneWholeDocuments ==
  Pruned =>
    /\ pr.i = Len(pr.toScan) + 1
    /\ pr.dryRun => table = pr.before
    /\ ~pr.dryRun =>
         \A j \in 1..Len(CelexOrder) :
           LET c == CelexOrder[j]
           IN  IF c \in PruneMatched
                 THEN DocRows(table, c) = {}
                 ELSE DocRows(table, c) = DocRows(pr.before, c)

\* C35: prune without --dry-run has come to its summary; the page of a
\* document matched a marker, its DELETE was rejected, and its rows are
\* still in the table.
C35_Witness ==
  /\ Pruned
  /\ ~pr.dryRun
  /\ \E c \in PruneMatched :
       /\ \E j \in 1..Len(pr.skipped) : pr.skipped[j] = c
       /\ DocRows(table, c) # {}
       /\ DocRows(table, c) = DocRows(pr.before, c)

----------------------------------------------------------------------------
(* The specification of the query path over a stored table. *)


\* Questions whose vectors are the first, second and fifth of the menu.
Questions ==
  { <<"w", "h", "a", "t", " ", "?">>, <<"q">>, <<"w", "h", "o", "?">> }

\* The k a caller of generateAnswer passes (1..20 at the route).
KValues == {1, 2, GenerateAnswerDefaultK}

\* message.content of the completion: absent, padded text, the abstention
\* sentence itself.
GenContents == { <<>>, <<" ", "o", "k", "\n">>, AbstainText }

\* Chunk lists of stored documents.
SampleChunkLists ==
  { <<>>, << <<"a">> >>, << <<"a", "b">> >>,
    << <<"a", "b", "c">>, <<"a">> >>, << <<"a", "b", "c", "d">>, <<"a", "b">> >> }

\* Tables left by committed upserts of two documents.
SampleTables ==
  { StoreChunks(StoreChunks(EmptyTable, Celex1, c1), Celex2, c2) :
      c1 \in SampleChunkLists, c2 \in {<<>>, << <<"a", "b">> >>} }

InitAnswer ==
  /\ table \in SampleTables
  /\ an = AnIdle
  /\ fw = FwIdle
  /\ fwHist = NoFwHist
  /\ seed = SeedIdle
  /\ up = UpIdle
  /\ conn = ConnIdle
  /\ pr = PrIdle
  /\ lastStore = NoStore
  /\ AuxIdle

AnswerCall ==
  /\ an.pc = "idle"
  /\ \E q \in Questions :
       \/ an' = AnStart("answer", q, AnswerK)
       \/ \E k \in KValues : an' = AnStart("generateAnswer", q, k)
  /\ UNCHANGED <<table, fw, fwHist, ingestVars, auxVars>>

\* embedText resolves or rejects (rag.ts:40).
RetrieveEmbed ==
  /\ an.pc = "RETRIEVE"
  /\ \/ an' = [an EXCEPT !.pc = "QUERY", !.qvec = EmbedModel(an.question)]
     \/ an' = AnFail(an)
  /\ UNCHANGED <<table, fw, fwHist, ingestVars, auxVars>>

\* dbQuery resolves or rejects (rag.ts:49-56), then AnDecide runs.
RetrieveQuery ==
  /\ an.pc = "QUERY"
  /\ \/ \E res \in QueryResults(table, ParseVector(toPgVector(an.qvec)), an.k) :
          an' = AnDecide([an EXCEPT !.chunks = res])
     \/ an' = AnFail(an)
  /\ UNCHANGED <<table, fw, fwHist, ingestVars, auxVars>>

\* The completion resolves or rejects (rag.ts:72-84, 98-108).
GenerateReturn ==
  /\ an.pc = "GENERATE"
  /\ \/ \E content \in GenContents :
          an' = [an EXCEPT !.pc = "DONE", !.path = Append(@, "DONE"),
                           !.result = GenerateResult(an.fn, an.chunks, content)]
     \/ an' = AnFail(an)
  /\ UNCHANGED <<table, fw, fwHist, ingestVars, auxVars>>

NextAnswer == AnswerCall \/ RetrieveEmbed \/ RetrieveQuery \/ GenerateReturn

SpecAnswer == InitAnswer /\ [][NextAnswer]_vars

----------------------------------------------------------------------------
(* Claims about the Answerer, checked under SpecAnswer. *)

InPathOf(a, st) == \E j \in 1..Len(a.path) : a.path[j] = st

InPath(st) == InPathOf(an, st)

\* The retrieval gave nothing, or its top passage scores below 0.25.
WeakEvidence == Len(an.chunks) = 0 \/ 4 * an.chunks[1].score < Scale

IsAbstention(res) ==
  res.text = AbstainText /\ res.sources = <<>> /\ res.sourceEntries = <<>>

\* C1: abstention gating.  Once answer or generateAnswer has weighed the
\* retrieved list, it has returned the fixed abstention text with an empty
\* citation list, without generating, exactly when the list is empty or its
\* top score is below 0.25; with a passage whose top score is 0.25 or more
\* it went on to GENERATE, and what it returns there is not the abstention.
C1_AbstentionGating ==
  /\ IsAbstention(an.result) <=> (InPath("DECIDE") /\ WeakEvidence)
  /\ (InPath("DECIDE") /\ WeakEvidence) =>
       an.pc = "DONE" /\ InPath("ABSTAIN") /\ ~InPath("GENERATE")
  /\ (InPath("DECIDE") /\ ~WeakEvidence) =>
       /\ Len(an.chunks) >= 1
       /\ InPath("GENERATE") /\ ~InPath("ABSTAIN")
       /\ an.genCalls = 1

\* C1 witness: generateAnswer retrieved passages whose top score is exactly
\* 0.25, generated, and returned.
C1_Witness ==
  /\ an.fn = "generateAnswer"
  /\ an.pc = "DONE"
  /\ Len(an.chunks) >= 1
  /\ 4 * an.chunks[1].score = Scale
  /\ InPath("GENERATE")
  /\ Len(an.result.sources) = Len(an.chunks)

IsPrefix(p, q) == Len(p) <= Len(q) /\ SubSeq(q, 1, Len(p)) = p

AnswererPaths ==
  { <<"RETRIEVE", "DECIDE", "ABSTAIN", "DONE">>,
    <<"RETRIEVE", "DECIDE", "GENERATE", "DONE">> }

\* C2: the Answerer follows RETRIEVE -> DECIDE -> {ABSTAIN, GENERATE} ->
\* DONE.  The generator is called at most once, only after retrieval has
\* returned its passages, and never on the ABSTAIN path; a call that ends
\* without failing went through exactly one of ABSTAIN and GENERATE; a call
\* that fails stops where the path was.
C2_AnswererStates ==
  /\ an.genCalls <= 1
  /\ an.genCalls = 1 <=> InPath("GENERATE")
  /\ InPath("GENERATE") =>
       /\ SubSeq(an.path, 1, 3) = <<"RETRIEVE", "DECIDE", "GENERATE">>
       /\ an.qvec # <<>> /\ Len(an.chunks) >= 1
  /\ InPath("ABSTAIN") => an.genCalls = 0
  /\ an.pc = "DONE" <=> an.path \in AnswererPaths
  /\ an.pc = "FAILED" <=>
       (an.path # <<>> /\ an.path[Len(an.path)] = "FAILED")
  /\ an.pc # "idle" =>
       \E h \in AnswererPaths :
         IF an.pc = "FAILED"
           THEN IsPrefix(SubSeq(an.path, 1, Len(an.path) - 1), h)
                  /\ Len(an.path) <= Len(h)
           ELSE IsPrefix(an.path, h)

\* C2 witness: answer went RETRIEVE, DECIDE, GENERATE, DONE with one call of
\* the generator.
C2_Witness ==
  /\ an.fn = "answer"
  /\ an.path = <<"RETRIEVE", "DECIDE", "GENERATE", "DONE">>
  /\ an.genCalls = 1

\* The vector the database receives for the query of the running call.
QueryVector == ParseVector(toPgVector(an.qvec))

\* The returned passage c is the stored row r with its score.
IsPassageOf(c, r) ==
  /\ c.celex = r.celex /\ c.doc_id = r.doc_id /\ c.chunk_id = r.chunk_id
  /\ c.content = r.content
  /\ c.score = Scale - CosineDistance(r.embedding, QueryVector)

\* C22: once retrieve has returned, the list holds k passages, or every
\* stored passage when fewer than k are stored; each is a stored row with
\* score = 1 - distance to the query vector, no stored row is returned more
\* often than it is stored, the scores do not increase along the list, and
\* no row left out is nearer to the query than a returned one.
C22_RetrieveNearest ==
  InPath("DECIDE") =>
    LET n == Len(an.chunks)
    IN  /\ n <= an.k
        /\ n = Min(an.k, BagCardinality(table))
        /\ \A a \in 1..n : \E r \in RowsOf(table) : IsPassageOf(an.chunks[a], r)
        /\ \A a, b \in 1..n : a < b => an.chunks[a].score >= an.chunks[b].score
        /\ \A r \in RowsOf(table) :
             LET got == Cardinality({a \in 1..n : IsPassageOf(an.chunks[a], r)})
             IN  /\ got <= table[r]
                 /\ got < table[r] =>
                      \A a \in 1..n :
                        CosineDistance(r.embedding, QueryVector)
                          >= Scale - an.chunks[a].score

\* C22: with k = 5 and three stored passages, retrieve returned one
\* passage, and a stored passage that it left out is nearer to the query.
C22_Witness ==
  /\ InPath("DECIDE")
  /\ an.k = 5
  /\ BagCardinality(table) = 3
  /\ Len(an.chunks) = 1
  /\ \E r \in RowsOf(table) :
       CosineDistance(r.embedding, QueryVector) < Scale - an.chunks[1].score

\* The parts of a text between the separators sep: `acc` is the part
\* being read.
RECURSIVE SplitOn(_, _, _)
SplitOn(text, sep, acc) ==
  IF text = <<>> THEN <<acc>>
  ELSE IF Head(text) = sep THEN <<acc>> \o SplitOn(Tail(text), sep, <<>>)
  ELSE SplitOn(Tail(text), sep, Append(acc, Head(text)))

\* The tag of a retrieved passage.
TagOf(c) == "#" \o c.celex \o ":" \o ToString(c.chunk_id)

\* The entry e of the returned list cites the passage c with its score.
CitesPassage(e, c) ==
  IF an.fn = "answer"
    THEN e = [ citation |-> TagOf(c), score |-> c.score ]
    ELSE /\ formatCitation(e.celex, e.chunk_id) = TagOf(c)
         /\ e.relevance = c.score

\* The citation list of the value returned.
CitationList ==
  IF an.fn = "answer" THEN an.result.sourceEntries ELSE an.result.sources

\* C24: in GENERATE the context holds one block per retrieved passage, in
\* the order of the retrieval, each the bracketed tag, a line break and the
\* text of the passage; the value returned holds one citation per
\* retrieved passage, in the same order, with the tag and the score of the
\* passage, whatever the generator wrote and whatever the score.
C24_ContextAndCitations ==
  InPath("GENERATE") =>
    LET blocks == SplitOn(an.context, "\n\n", <<>>)
    IN  /\ Len(blocks) = Len(an.chunks)
        /\ \A j \in 1..Len(an.chunks) :
             blocks[j] = << "[" \o TagOf(an.chunks[j]) \o "]", "\n" >>
                           \o an.chunks[j].content
        /\ an.pc = "DONE" =>
             /\ Len(CitationList) = Len(an.chunks)
             /\ \A j \in 1..Len(an.chunks) : CitesPassage(CitationList[j], an.chunks[j])
             /\ an.fn = "answer" =>
                  an.result.sources = [j \in 1..Len(an.chunks) |-> TagOf(an.chunks[j])]

\* C24: answer returned after GENERATE with two retrieved passages, the
\* second below the threshold, and a generator that wrote nothing.
C24_Witness ==
  /\ an.fn = "answer"
  /\ an.pc = "DONE"
  /\ InPath("GENERATE")
  /\ Len(an.chunks) = 2
  /\ an.chunks[2].score < ScoreThreshold
  /\ an.result.text = <<>>
  /\ Len(an.result.sourceEntries) = 2

----------------------------------------------------------------------------
(* The POST handlers of the query API: /api/ask (src/app/page.tsx:141-168)
   and /api/chat (src/app/api/chat/route.ts). *)

\* z.string().min(1).optional()
OptionalText(v) == v = Undefined \/ Len(v) >= 1

\* The bounds of k in the two schemas.
AskMaxK == 50
ChatMaxK == 20

\* z.number().int().positive().max(50).optional()
AskKValid(k) ==
  \/ k.type = "undefined"
  \/ k.type = "number" /\ k.integer /\ k.value > 0 /\ k.value <= AskMaxK

\* z.number().int().min(1).max(20).optional()
ChatKValid(k) ==
  \/ k.type = "undefined"
  \/ k.type = "number" /\ k.integer /\ k.value >= 1 /\ k.value <= ChatMaxK

\* BodySchema.safeParse(json).success of /api/ask (page.tsx:145-152, 157).
AskValid(b) ==
  /\ OptionalText(b.query)
  /\ OptionalText(b.question)
  /\ AskKValid(b.k)
  /\ b.query # Undefined \/ b.question # Undefined

\* BodySchema.parse(json) of /api/chat does not throw (route.ts:6-9, 14).
ChatValid(b) ==
  /\ b.message # Undefined /\ Len(b.message) >= 1
  /\ ChatKValid(b.k)

\* page.tsx:156: req.json().catch(() => ({})).
AskJson(b) == IF b.json THEN b ELSE EmptyBody

\* page.tsx:161: parse.data.query ?? parse.data.question.
AskQuestion(b) == IF b.query # Undefined THEN b.query ELSE b.question

\* page.tsx:162 and rag.ts:64: answer(q) retrieves with 5 whatever the
\* request holds.
AskK(b) == AnswerK

\* route.ts:15: k ?? 10.
ChatK(b) == IF b.k.type = "undefined" THEN GenerateAnswerDefaultK ELSE b.k.value

HttpOk == 200
HttpBadRequest == 400
HttpServerError == 500

\* The status of the response once the call has ended: /api/ask answers
\* 200 or, from its catch, 500 (page.tsx:163-166); /api/chat answers with
\* the default status or, from its catch, 400 (route.ts:16-22).
RouteStatus(route, pc) ==
  IF pc = "DONE" THEN HttpOk
  ELSE IF route = "ask" THEN HttpServerError
  ELSE HttpBadRequest

\* The k values of the requests.
BodyKs == { KUndefined, KNumber(0), KNumber(2), KNumber(21), KNumber(51), KFraction }

\* The bodies: one that does not parse, and objects with any of the fields.
Bodies ==
  { Body(FALSE, Undefined, Undefined, Undefined, KUndefined) }
    \cup { Body(TRUE, q1, q2, m, k) :
             q1 \in {Undefined, <<>>, <<"q">>},
             q2 \in {Undefined, <<"w", "h", "o", "?">>},
             m \in {Undefined, <<>>, <<"q">>},
             k \in BodyKs }

\* Tables of the store: empty, and some left by committed upserts.
RouteTables ==
  { EmptyTable,
    StoreChunks(EmptyTable, Celex1, << <<"a">> >>),
    StoreChunks(EmptyTable, Celex1, << <<"a", "b", "c">>, <<"a">> >>) }

InitRoute ==
  /\ table \in RouteTables
  /\ an = AnIdle
  /\ fw = FwIdle
  /\ fwHist = NoFwHist
  /\ seed = SeedIdle
  /\ up = UpIdle
  /\ conn = ConnIdle
  /\ pr = PrIdle
  /\ lastStore = NoStore
  /\ AuxIdle

\* POST /api/ask up to the call of answer or the 400 of line 159.
AskRequest ==
  /\ rt.pc = "idle"
  /\ \E b \in Bodies :
       LET json == AskJson(b)
       IN  IF AskValid(json)
             THEN /\ rt' = [ rt EXCEPT !.pc = "calling", !.route = "ask",
                                       !.body = b, !.invoked = TRUE ]
                  /\ an' = AnStart("answer", AskQuestion(json), AskK(json))
             ELSE /\ rt' = [ rt EXCEPT !.pc = "responded", !.route = "ask",
                                       !.body = b, !.status = HttpBadRequest ]
                  /\ an' = an
  /\ UNCHANGED <<table, fw, fwHist, ingestVars, sp, disc, dd, ch, calls, txs, ex, home>>

\* POST /api/chat up to the call of generateAnswer or the catch.
ChatRequest ==
  /\ rt.pc = "idle"
  /\ \E b \in Bodies :
       IF b.json /\ ChatValid(b)
         THEN /\ rt' = [ rt EXCEPT !.pc = "calling", !.route = "chat",
                                   !.body = b, !.invoked = TRUE ]
              /\ an' = AnStart("generateAnswer", b.message, ChatK(b))
         ELSE /\ rt' = [ rt EXCEPT !.pc = "responded", !.route = "chat",
                                   !.body = b, !.status = HttpBadRequest ]
              /\ an' = an
  /\ UNCHANGED <<table, fw, fwHist, ingestVars, sp, disc, dd, ch, calls, txs, ex, home>>

\* The call has returned or thrown: the handler responds.
RouteRespond ==
  /\ rt.pc = "calling"
  /\ an.pc \in {"DONE", "FAILED"}
  /\ rt' = [ rt EXCEPT !.pc = "responded", !.status = RouteStatus(rt.route, an.pc) ]
  /\ UNCHANGED <<table, an, fw, fwHist, ingestVars, sp, disc, dd, ch, calls, txs, ex,
               home>>

NextRoute ==
  \/ AskRequest
  \/ ChatRequest
  \/ RetrieveEmbed
  \/ RetrieveQuery
  \/ GenerateReturn
  \/ RouteRespond

SpecRoute == InitRoute /\ [][NextRoute]_vars

----------------------------------------------------------------------------
(* Claims about the routes, checked under SpecRoute. *)

\* C23: when a route has called the Answerer, the retrieval runs with the k
\* of the request, or with 5 when the request holds no k.
C23_RetrievalSize ==
  rt.invoked =>
    an.k = (IF rt.body.k.type = "undefined" THEN 5 ELSE rt.body.k.value)

\* C23: /api/ask was sent k = 2 and the retrieval runs with 5.
C23_Witness ==
  /\ rt.route = "ask"
  /\ rt.invoked
  /\ rt.body.k = KNumber(2)
  /\ an.k = 5
  /\ InPath("DECIDE")

\* The request passes the schema of its route.
WellFormed ==
  IF rt.route = "ask" THEN AskValid(AskJson(rt.body))
  ELSE rt.body.json /\ ChatValid(rt.body)

\* C26: a malformed request is answered 4xx with no retrieval and no
\* generation; a call that failed in the embedding, the store query or the
\* generation is answered 5xx; a call that returned, the abstention
\* included, is answered as a success.
C26_ErrorSignalling ==
  rt.pc = "responded" =>
    /\ ~WellFormed =>
         /\ rt.status >= 400 /\ rt.status <= 499
         /\ ~rt.invoked /\ an.path = <<>> /\ an.genCalls = 0
    /\ (WellFormed /\ an.pc = "FAILED") => rt.status >= 500 /\ rt.status <= 599
    /\ (WellFormed /\ an.pc = "DONE") => rt.status >= 200 /\ rt.status <= 299

\* C26: /api/chat answered 400 to a well-formed request whose call failed.
C26_Witness ==
  /\ rt.pc = "responded"
  /\ rt.route = "chat"
  /\ WellFormed
  /\ an.pc = "FAILED"
  /\ rt.status = 400

----------------------------------------------------------------------------
(* The specification of answer / generateAnswer calls running side by side
   over one table: every await of a call is a point where the steps of the
   other calls may run. *)

MaxCalls == 2

\* Two questions with different vectors.
CallQuestions == { <<"q">>, <<"w", "h", "o", "?">> }

\* The entries of the calls: answer(q) and generateAnswer(q, 1).
CallStarts ==
  { AnStart("answer", q, AnswerK) : q \in CallQuestions }
    \cup { AnStart("generateAnswer", q, 1) : q \in CallQuestions }

InitCalls ==
  /\ table \in RouteTables
  /\ fw = FwIdle /\ fwHist = NoFwHist /\ an = AnIdle
  /\ seed = SeedIdle /\ up = UpIdle /\ conn = ConnIdle /\ pr = PrIdle
  /\ lastStore = NoStore
  /\ sp = SpIdle /\ disc = DiscIdle /\ dd = DdIdle /\ ch = ChIdle
  /\ rt = RtIdle /\ txs = TxsIdle /\ ex = ExIdle /\ home = HomeIdle
  /\ calls = [i \in 1..MaxCalls |-> AnIdle]

\* Mutant: the vector of the query is kept in one place for all calls, so a
\* call reads the vector of the question embedded last.
CallEmbeddedShared(cs, i) ==
  LET others == {j \in 1..Len(cs) : j # i /\ cs[j].qvec # <<>>}
  IN  [ cs[i] EXCEPT !.pc = "QUERY",
                     !.qvec = IF others = {} THEN EmbedModel(cs[i].question)
                              ELSE cs[CHOOSE j \in others : TRUE].qvec ]

\* rag.ts:40: `const embedding = await embedText(queryText)` has resolved.
CallEmbedded(cs, i) ==
  [ cs[i] EXCEPT !.pc = "QUERY", !.qvec = EmbedModel(cs[i].question) ]

CallStart(i) ==
  /\ calls[i].pc = "idle"
  /\ \E a \in CallStarts : calls' = [calls EXCEPT ![i] = a]
  /\ UNCHANGED <<fw, fwHist, table, an, ingestVars, sp, disc, dd, ch, rt, txs, ex, home>>

CallEmbed(i) ==
  /\ calls[i].pc = "RETRIEVE"
  /\ \/ calls' = [calls EXCEPT ![i] = CallEmbedded(calls, i)]
     \/ calls' = [calls EXCEPT ![i] = AnFail(calls[i])]
  /\ UNCHANGED <<fw, fwHist, table, an, ingestVars, sp, disc, dd, ch, rt, txs, ex, home>>

CallQuery(i) ==
  /\ calls[i].pc = "QUERY"
  /\ \/ \E res \in QueryResults(table, ParseVector(toPgVector(calls[i].qvec)),
                                calls[i].k) :
          calls' = [calls EXCEPT ![i] = AnDecide([calls[i] EXCEPT !.chunks = res])]
     \/ calls' = [calls EXCEPT ![i] = AnFail(calls[i])]
  /\ UNCHANGED <<fw, fwHist, table, an, ingestVars, sp, disc, dd, ch, rt, txs, ex, home>>

CallGenerate(i) ==
  /\ calls[i].pc = "GENERATE"
  /\ \/ \E content \in GenContents :
          calls' = [calls EXCEPT ![i] =
                      [ calls[i] EXCEPT
                          !.pc = "DONE", !.path = Append(@, "DONE"),
                          !.result = GenerateResult(calls[i].fn, calls[i].chunks,
                                                    content) ]]
     \/ calls' = [calls EXCEPT ![i] = AnFail(calls[i])]
  /\ UNCHANGED <<fw, fwHist, table, an, ingestVars, sp, disc, dd, ch, rt, txs, ex, home>>

NextCalls ==
  \E i \in 1..MaxCalls :
    CallStart(i) \/ CallEmbed(i) \/ CallQuery(i) \/ CallGenerate(i)

SpecCalls == InitCalls /\ [][NextCalls]_vars

----------------------------------------------------------------------------
(* Claims about calls side by side, checked under SpecCalls. *)

\* What a call of fn on question q with k may return over the table tbl
\* when it runs alone.
ResultsAlone(fn, q, k, tbl) ==
  UNION { IF MustAbstain(res) THEN { AbstainResult(fn) }
          ELSE { GenerateResult(fn, res, content) : content \in GenContents } :
            res \in QueryResults(tbl, ParseVector(toPgVector(EmbedModel(q))), k) }

\* A call that has returned, whatever the other calls did meanwhile,
\* returned a value that the same call running alone returns for its
\* question, its k and the table.
CallsIndependent ==
  \A i \in 1..MaxCalls :
    calls[i].pc = "DONE" =>
      calls[i].result \in ResultsAlone(calls[i].fn, calls[i].question,
                                       calls[i].k, table)

\* C25: no step of a call running beside others changes the table, and
\* what a call returns is what it returns alone for its question, its k
\* and the table: it does not depend on the other calls.
C25_QueryPathPure == []CallsIndependent /\ [][table' = table]_vars

\* C25: two calls on different questions ran side by side over a table
\* with rows, and both returned after generating.
C25_Witness ==
  /\ calls[1].pc = "DONE" /\ calls[2].pc = "DONE"
  /\ calls[1].question # calls[2].question
  /\ InPathOf(calls[1], "GENERATE") /\ InPathOf(calls[2], "GENERATE")
  /\ calls[1].result # calls[2].result

----------------------------------------------------------------------------
(* The specification of one fetchWithRetry call on its own. *)

InitFetch ==
  /\ fw \in {FwStart(a, DefaultBaseDelayMs) : a \in 0..MaxAttempts}
  /\ fwHist = NoFwHist
  /\ table = EmptyTable
  /\ an = AnIdle
  /\ seed = SeedIdle
  /\ up = UpIdle
  /\ conn = ConnIdle
  /\ pr = PrIdle
  /\ lastStore = NoStore
  /\ AuxIdle

\* The fetch of an iteration settles (lines 135-148): the call returns, or
\* it starts the timer of its backoff delay and waits for it.
FetchAttempt ==
  /\ fw.st = "running"
  /\ FwLoopCond(fw.i, fw.attempts)
  /\ \E o \in FetchOutcomes, delay \in Delays(fw.baseDelayMs, fw.i) :
       /\ fw' = FwSettle(fw, o)
       /\ fwHist' = FwRecord(fwHist, fw, o, delay)
  /\ UNCHANGED <<table, an, ingestVars, auxVars>>

\* The timer of the backoff delay fires (lines 140, 148, 131, 151): the
\* next fetch is awaited, or the call throws.
FetchBackoff ==
  /\ fw.st = "sleeping"
  /\ fw' = FwWoken(fw)
  /\ fwHist' = [fwHist EXCEPT !.timer = 0]
  /\ UNCHANGED <<table, an, ingestVars, auxVars>>

\* A call with no attempt to make throws at once (lines 131, 151).
FetchExhaust ==
  /\ fw.st = "running"
  /\ ~FwLoopCond(fw.i, fw.attempts)
  /\ fw' = FwExhausted(fw)
  /\ UNCHANGED <<fwHist, table, an, ingestVars, auxVars>>

NextFetch == FetchAttempt \/ FetchBackoff \/ FetchExhaust

SpecFetch == InitFetch /\ [][NextFetch]_vars

----------------------------------------------------------------------------
(* Claims about fetchWithRetry, checked under SpecFetch. *)

\* The failures the caller counts as transient: a thrown timeout or network
\* error, HTTP 429, HTTP 5xx.
IsRetryableFailure(o) ==
  o.kind = "error" \/ o.status = 429 \/ (o.status >= 500 /\ o.status <= 599)

Is2xx(o) == o.kind = "status" /\ o.status >= 200 /\ o.status <= 299

IsNonRetryableStatus(o) ==
  o.kind = "status" /\ ~Is2xx(o) /\ ~IsRetryableFailure(o)

\* C9: fetchWithRetry is bounded.  It makes at most `attempts` network
\* attempts; a 2xx response is returned as soon as it is received (it is the
\* last attempt made and it is the call's result); and a call that has ended
\* after nothing but retryable failures has thrown, never returned.  While
\* a fetch of the call is awaited, the loop counter equals the number of
\* attempts made, so the loop ends.
C9_FetchBounded ==
  /\ Len(fwHist.log) <= fw.attempts
  /\ fw.st = "running" => fw.i = Len(fwHist.log)
  /\ \A j \in 1..Len(fwHist.log) :
       Is2xx(fwHist.log[j]) =>
         /\ j = Len(fwHist.log)
         /\ fw.st = "returned"
         /\ fw.res = fwHist.log[j].status
  /\ ( /\ fw.st \in {"returned", "thrown"}
       /\ \A j \in 1..Len(fwHist.log) : IsRetryableFailure(fwHist.log[j]) )
     => ( /\ fw.st = "thrown"
          /\ Len(fwHist.log) = fw.attempts
          /\ fw.thrown # "" )

\* C9 witness: a call that used up two or more attempts on a mix of thrown
\* errors and retryable statuses, and threw.
C9_Witness ==
  /\ fw.st = "thrown"
  /\ fw.attempts >= 2
  /\ Len(fwHist.log) = fw.attempts
  /\ \E j \in 1..Len(fwHist.log) : fwHist.log[j].kind = "error"
  /\ \E j \in 1..Len(fwHist.log) : fwHist.log[j].kind = "status"

\* C10: a non-retryable status ends the call at once.  It is the last attempt
\* made, the response is the call's result, and no backoff delay follows it
\* (the delays are those of the earlier attempts only), however many attempts
\* remain.
C10_NonRetryableReturnsAtOnce ==
  \A j \in 1..Len(fwHist.log) :
    IsNonRetryableStatus(fwHist.log[j]) =>
      /\ j = Len(fwHist.log)
      /\ fw.st = "returned"
      /\ fw.res = fwHist.log[j].status
      /\ Len(fwHist.sleeps) = j - 1

\* C10 witness: a 404 received on the second attempt of three is returned.
C10_Witness ==
  /\ fw.st = "returned"
  /\ fw.res = 404
  /\ Len(fwHist.log) = 2
  /\ fw.attempts = 3
  /\ Len(fwHist.sleeps) = 1

----------------------------------------------------------------------------
(* The specification of discovery: runDiscovery and its runSparql calls. *)

\* Entry of runSparql(query): the POST to the first endpoint is awaited.
\* `calls` is history: the fetchWithRetry calls made, in their order.
SpStart(query) ==
  [ SpIdle EXCEPT !.pc = "post", !.query = query, !.ep = 1,
                  !.calls = <<Call(1, "POST")>> ]

\* Lines 182-189: lastErr is set, and the loop goes to the POST of the next
\* endpoint or, after the last one, runSparql throws.
NextEndpoint(s, err) ==
  IF s.ep < Len(SparqlEndpoints)
    THEN [ s EXCEPT !.pc = "post", !.ep = @ + 1, !.lastErr = err,
                    !.calls = Append(@, Call(s.ep + 1, "POST")) ]
    ELSE [ s EXCEPT !.pc = "thrown", !.lastErr = err,
                    !.thrown = IF err # "" THEN err
                               ELSE "All SPARQL endpoints failed" ]

\* The fetchWithRetry call runSparql awaits at s: that of lines 169 and
\* 176 while a POST or a GET is out, none otherwise.
SparqlFw(s) ==
  IF s.pc \in {"post", "get"} THEN FwStart(SparqlFetchAttempts, SparqlFetchBaseDelayMs)
  ELSE FwIdle

\* A fetchWithRetry call of runSparql has ended as f, with the content type
\* ctype on its response (lines 169-181): its throw goes to the catch; a
\* JSON response that is ok is parsed; otherwise the POST is followed by
\* the GET, and the GET by the reading of its body.
SparqlFetchEnds(f, ctype) ==
  LET s == IF f.st = "thrown" THEN NextEndpoint(sp, f.thrown)
           ELSE IF ResOk(f.res) /\ IsJsonType(ctype)
             THEN [sp EXCEPT !.pc = IF sp.pc = "post" THEN "postJson" ELSE "getJson"]
           ELSE IF sp.pc = "post"
             THEN [sp EXCEPT !.pc = "get", !.calls = Append(@, Call(sp.ep, "GET"))]
           ELSE [sp EXCEPT !.pc = "getText"]
  IN  sp' = s /\ fw' = SparqlFw(s)

\* A fetch of the call settles (lines 135-148): the call returns its
\* response to runSparql, or it starts the timer of its backoff delay, any
\* of Delays(baseDelayMs, i), and waits for it.  How long the timer runs is
\* not kept: nothing reads it.
SparqlFetched ==
  /\ sp.pc \in {"post", "get"}
  /\ fw.st = "running"
  /\ \E o \in SparqlOutcomes, ctype \in ContentTypes :
       LET f == FwSettle(fw, o)
       IN  IF f.st = "sleeping" THEN fw' = f /\ UNCHANGED sp
           ELSE SparqlFetchEnds(f, ctype)
  /\ UNCHANGED <<fwHist, table, an, ingestVars, disc, dd, ch, moreVars>>

\* The timer of the backoff delay fires (lines 140, 148): the next fetch
\* of the call is awaited, or the call throws to runSparql (line 151).
SparqlBackoff ==
  /\ sp.pc \in {"post", "get"}
  /\ fw.st = "sleeping"
  /\ LET f == FwWoken(fw)
     IN  IF f.st = "running" THEN fw' = f /\ UNCHANGED sp
         ELSE SparqlFetchEnds(f, <<>>)
  /\ UNCHANGED <<fwHist, table, an, ingestVars, disc, dd, ch, moreVars>>

\* res.json() resolves and runSparql returns the data, or rejects (lines
\* 172, 179, 184-187).
SparqlJson ==
  /\ sp.pc \in {"postJson", "getJson"}
  /\ \/ \E data \in SparqlData : sp' = [sp EXCEPT !.pc = "returned", !.data = data]
     \/ sp' = NextEndpoint(sp, "json")
  /\ fw' = SparqlFw(sp')
  /\ UNCHANGED <<fwHist, table, an, ingestVars, disc, dd, ch, moreVars>>

\* res2.text() resolves or rejects (lines 181-187).
SparqlText ==
  /\ sp.pc = "getText"
  /\ \E err \in {"Unexpected content-type", "body"} : sp' = NextEndpoint(sp, err)
  /\ fw' = SparqlFw(sp')
  /\ UNCHANGED <<fwHist, table, an, ingestVars, disc, dd, ch, moreVars>>

\* Lines 207-209: the query of a shape for a page.
DiscQuery(shape, page) == Query(shape, DiscLimit, page * DiscLimit)

\* An entry of the history of runDiscovery: a runSparql call that ended.
LogEntry(page, shape, failed, bindings) ==
  [ page |-> page, shape |-> shape, failed |-> failed, bindings |-> bindings ]

\* Mutant: an empty page does not end the loop.
AfterPageNoBreak(d, shape, bindings) ==
  LET items == d.items \o PageItems(bindings, d.sinceYear)
      d1 == [ d EXCEPT !.items = items,
                       !.log = Append(@, LogEntry(d.page, shape, FALSE, bindings)) ]
  IN  IF d.page + 1 >= d.pages
        THEN [d1 EXCEPT !.pc = "returned", !.result = DedupByCelex(items)]
        ELSE [d1 EXCEPT !.pc = "eli", !.page = @ + 1]

\* Lines 223-255: the bindings of the page are filtered into items; an empty
\* page or the last page ends the loop and the deduplicated items are
\* returned; otherwise the next page follows.
AfterPage(d, shape, bindings) ==
  LET items == d.items \o PageItems(bindings, d.sinceYear)
      d1 == [ d EXCEPT !.items = items,
                       !.log = Append(@, LogEntry(d.page, shape, FALSE, bindings)) ]
  IN  IF bindings = <<>> \/ d.page + 1 >= d.pages
        THEN [d1 EXCEPT !.pc = "returned", !.result = DedupByCelex(items)]
        ELSE [d1 EXCEPT !.pc = "eli", !.page = @ + 1]

\* runDiscovery(limit, pages, sinceYear) is called (lines 192, 205-211):
\* with a page to query, the ELI query of page 0 is sent.  pages is 0 where
\* the code holds NaN (--pages that is no number).
DiscCall ==
  /\ disc.pc = "idle"
  /\ \E pages \in 0..MaxPages, sinceYear \in SinceYears :
       IF pages > 0
         THEN /\ disc' = [ DiscIdle EXCEPT !.pc = "eli", !.pages = pages,
                                           !.sinceYear = sinceYear ]
              /\ sp' = SpStart(DiscQuery("ELI", 0))
         ELSE /\ disc' = [ DiscIdle EXCEPT !.pc = "returned",
                                           !.sinceYear = sinceYear ]
              /\ sp' = SpIdle
  /\ fw' = SparqlFw(sp')
  /\ UNCHANGED <<fwHist, table, an, ingestVars, dd, ch, moreVars>>

\* A runSparql call of runDiscovery ends (lines 211-247): its throw ends
\* runDiscovery; an ELI answer without bindings is followed by the CDM
\* query of the page; any other answer is the page's.
DiscSparqlEnd ==
  /\ disc.pc \in {"eli", "cdm"}
  /\ sp.pc \in {"returned", "thrown"}
  /\ IF sp.pc = "thrown"
       THEN /\ disc' = [ disc EXCEPT
                           !.pc = "thrown", !.thrown = sp.thrown,
                           !.log = Append(@, LogEntry(disc.page, sp.query.shape, TRUE, <<>>)) ]
            /\ sp' = SpIdle
     ELSE IF disc.pc = "eli" /\ BindingsOf(sp.data) = <<>>
       THEN /\ disc' = [ disc EXCEPT
                           !.pc = "cdm",
                           !.log = Append(@, LogEntry(disc.page, "ELI", FALSE, <<>>)) ]
            /\ sp' = SpStart(DiscQuery("CDM", disc.page))
     ELSE LET d == AfterPage(disc, sp.query.shape, BindingsOf(sp.data))
          IN  /\ disc' = d
              /\ sp' = IF d.pc = "eli" THEN SpStart(DiscQuery("ELI", d.page))
                       ELSE SpIdle
  /\ fw' = SparqlFw(sp')
  /\ UNCHANGED <<fwHist, table, an, ingestVars, dd, ch, moreVars>>

\* Mutant: main catches the throw of runDiscovery and goes on with the
\* records gathered before it.
MainAfterDiscoveryKeepGathered ==
  /\ seed.pc = "idle"
  /\ disc.pc \in {"returned", "thrown"}
  /\ \E noEmbed \in BOOLEAN :
       seed' = SeedStarted(IF disc.pc = "returned" THEN disc.result
                           ELSE DedupByCelex(disc.items), noEmbed)
  /\ UNCHANGED <<fw, fwHist, table, an, up, conn, pr, lastStore, sp, disc, dd,
                 ch, moreVars>>

\* main after `await runDiscovery(...)` (lines 536-547, 579-582): the
\* returned records are the items of the batch loop; a throw of
\* runDiscovery is not caught in main, whose rejection ends the process
\* with exit code 1 before the loop.
MainAfterDiscovery ==
  /\ seed.pc = "idle"
  /\ disc.pc \in {"returned", "thrown"}
  /\ IF disc.pc = "returned"
       THEN \E noEmbed \in BOOLEAN : seed' = SeedStarted(disc.result, noEmbed)
       ELSE seed' = [SeedIdle EXCEPT !.pc = "exit1"]
  /\ UNCHANGED <<fw, fwHist, table, an, up, conn, pr, lastStore, sp, disc, dd,
                 ch, moreVars>>

InitDiscovery ==
  /\ fw = FwIdle
  /\ fwHist = NoFwHist
  /\ table = EmptyTable
  /\ an = AnIdle
  /\ seed = SeedIdle
  /\ up = UpIdle
  /\ conn = ConnIdle
  /\ pr = PrIdle
  /\ lastStore = NoStore
  /\ AuxIdle

NextDiscovery ==
  \/ DiscCall \/ SparqlFetched \/ SparqlBackoff \/ SparqlJson \/ SparqlText
  \/ DiscSparqlEnd
  \/ MainAfterDiscovery

SpecDiscovery == InitDiscovery /\ [][NextDiscovery]_vars

----------------------------------------------------------------------------
(* Claims about discovery. *)

DiscEnded == disc.pc \in {"returned", "thrown"}

\* The ELI query of the entry failed on the endpoints or had no result.
EliCameToNothing(e) == e.shape = "ELI" /\ (e.failed \/ e.bindings = <<>>)

\* C12: when runDiscovery has ended, every page whose ELI query failed on
\* the endpoints or had no result has had its CDM query too.
C12_ShapeFallback ==
  DiscEnded =>
    \A i \in 1..Len(disc.log) :
      EliCameToNothing(disc.log[i]) =>
        \E j \in (i + 1)..Len(disc.log) :
          disc.log[j].page = disc.log[i].page /\ disc.log[j].shape = "CDM"

\* C12: runDiscovery has thrown after the ELI query of page 0 failed, and
\* no CDM query was made.
C12_Witness ==
  /\ disc.pc = "thrown"
  /\ disc.log = << LogEntry(0, "ELI", TRUE, <<>>) >>

\* POST then GET on each endpoint, in the order of the endpoints.
ExpectedCalls ==
  [ i \in 1..(2 * Len(SparqlEndpoints)) |->
      Call((i + 1) \div 2, IF i % 2 = 1 THEN "POST" ELSE "GET") ]

\* C13: the calls of runSparql are the endpoints in their order, POST then
\* GET on each: a POST that gave no result is followed by the GET to the
\* same endpoint before the next endpoint, runSparql throws only after the
\* GET to the last endpoint, and a call that gave the result is the last.
C13_EndpointOrder ==
  /\ IsPrefix(sp.calls, ExpectedCalls)
  /\ sp.pc = "thrown" => sp.calls = ExpectedCalls
  /\ sp.pc = "returned" => sp.calls[Len(sp.calls)].ep = sp.ep

\* C13: the POST to the second endpoint follows the POST to the first.
C13_Witness == sp.calls = << Call(1, "POST"), Call(2, "POST") >>

\* The records of the pages answered so far, in their order.
RECURSIVE Gathered(_, _)
Gathered(log, sinceYear) ==
  IF log = <<>> THEN <<>>
  ELSE PageItems(Head(log).bindings, sinceYear) \o Gathered(Tail(log), sinceYear)

\* Both queries of a page were answered without a result.
EmptyPageAt(i) ==
  /\ i + 1 <= Len(disc.log)
  /\ disc.log[i].shape = "ELI" /\ ~disc.log[i].failed /\ disc.log[i].bindings = <<>>
  /\ disc.log[i + 1].shape = "CDM" /\ ~disc.log[i + 1].failed
  /\ disc.log[i + 1].bindings = <<>>
  /\ disc.log[i + 1].page = disc.log[i].page

\* C14: the pages are queried from 0 upwards, ELI before CDM on each; after
\* a page without results under both shapes no query follows and the
\* records of the earlier pages are returned; a failure of the queries of
\* page 0 makes runDiscovery throw with no record returned.
C14_Pagination ==
  /\ Len(disc.log) > 0 => disc.log[1].page = 0 /\ disc.log[1].shape = "ELI"
  /\ \A i \in 1..(Len(disc.log) - 1) :
       \/ /\ disc.log[i + 1].page = disc.log[i].page
          /\ disc.log[i].shape = "ELI" /\ disc.log[i + 1].shape = "CDM"
       \/ /\ disc.log[i + 1].page = disc.log[i].page + 1
          /\ disc.log[i + 1].shape = "ELI"
  /\ \A i \in 1..Len(disc.log) :
       EmptyPageAt(i) =>
         /\ i + 1 = Len(disc.log)
         /\ sp.pc = "idle"
         /\ disc.pc = "returned"
         /\ disc.result = DedupByCelex(Gathered(disc.log, disc.sinceYear))
  /\ \A i \in 1..Len(disc.log) :
       (disc.log[i].failed /\ disc.log[i].page = 0) =>
         disc.pc = "thrown" /\ disc.result = <<>>

\* C14: of three pages asked for, page 0 gave two records, page 1 none
\* under either shape, and the two records are returned with page 2 never
\* queried.
C14_Witness ==
  /\ disc.pc = "returned"
  /\ disc.pages = 3
  /\ Len(disc.log) = 3
  /\ disc.log[1].page = 0 /\ Len(disc.log[1].bindings) = 2
  /\ EmptyPageAt(2)
  /\ disc.log[2].page = 1
  /\ Len(disc.result) = 2

\* C34: when a query of a page after page 0 has failed on every endpoint,
\* it is the last query of the call, runDiscovery has thrown and returned
\* nothing, and main has no record to ingest: its batch loop is not
\* entered.
C34_LaterPageFailureFails ==
  \A i \in 1..Len(disc.log) :
    (disc.log[i].failed /\ disc.log[i].page > 0) =>
      /\ i = Len(disc.log)
      /\ disc.pc = "thrown"
      /\ disc.result = <<>>
      /\ seed.pc \in {"idle", "exit1"}
      /\ seed.todo = <<>> /\ seed.n = 0

\* C34: page 0 gave records, the ELI query of page 1 failed on every
\* endpoint, and main ended with exit code 1.
C34_Witness ==
  /\ disc.pc = "thrown"
  /\ Len(disc.log) = 2
  /\ disc.log[2] = LogEntry(1, "ELI", TRUE, <<>>)
  /\ disc.items # <<>>
  /\ seed.pc = "exit1"

----------------------------------------------------------------------------
(* The specification of the filters and the deduplication of runDiscovery on
   one list of bindings. *)

\* Nothing else runs.
QueryIdle == fw = FwIdle /\ fwHist = NoFwHist /\ table = EmptyTable /\ an = AnIdle

IngestIdle ==
  /\ seed = SeedIdle
  /\ up = UpIdle
  /\ conn = ConnIdle
  /\ pr = PrIdle
  /\ lastStore = NoStore

InitDedup ==
  /\ QueryIdle
  /\ IngestIdle
  /\ MoreIdle
  /\ sp = SpIdle
  /\ disc = DiscIdle
  /\ ch = ChIdle
  /\ \E bindings \in BindingLists, sinceYear \in SinceYears :
       dd = [ DdIdle EXCEPT !.pc = "input", !.bindings = bindings,
                            !.sinceYear = sinceYear ]

\* The loop over the bindings (lines 223-244).
DdFilter ==
  /\ dd.pc = "input"
  /\ dd' = [ dd EXCEPT !.pc = "filtered",
                       !.items = PageItems(dd.bindings, dd.sinceYear) ]
  /\ UNCHANGED <<fw, fwHist, table, an, ingestVars, sp, disc, ch, moreVars>>

\* The deduplication and the return (lines 248-255).
DdDedup ==
  /\ dd.pc = "filtered"
  /\ dd' = [ dd EXCEPT !.pc = "done", !.result = DedupByCelex(dd.items) ]
  /\ UNCHANGED <<fw, fwHist, table, an, ingestVars, sp, disc, ch, moreVars>>

NextDedup == DdFilter \/ DdDedup

SpecDedup == InitDedup /\ [][NextDedup]_vars

----------------------------------------------------------------------------
(* Claims about the records of discovery. *)

ElementsOf(seq) == { seq[j] : j \in 1..Len(seq) }

\* C15: the list returned holds one record for every id that passed the
\* filters and no id twice, each record is one of those that passed, and
\* the record of an id is a ro one whenever a ro record of that id passed,
\* wherever in the list it stood.
C15_DedupPrefersRo ==
  dd.pc = "done" =>
    /\ \A i, j \in 1..Len(dd.result) :
         dd.result[i].celex = dd.result[j].celex => i = j
    /\ { r.celex : r \in ElementsOf(dd.result) }
         = { it.celex : it \in ElementsOf(dd.items) }
    /\ ElementsOf(dd.result) \subseteq ElementsOf(dd.items)
    /\ \A r \in ElementsOf(dd.result) :
         (\E it \in ElementsOf(dd.items) : it.celex = r.celex /\ it.lang = "ro")
           => r.lang = "ro"

\* C15: three records of one id passed, an en one before a ro one, and the
\* ro one is the record returned.
C15_Witness ==
  /\ dd.pc = "done"
  /\ Len(dd.items) = 3
  /\ \A j \in 1..3 : dd.items[j].celex = dd.items[1].celex
  /\ dd.items[1].lang = "en"
  /\ dd.items[2].lang = "ro"
  /\ dd.result = <<dd.items[2]>>

\* The year of a record: of its issued date when it has one, of its id
\* otherwise.
RecordYear(r) ==
  IF Truthy(r.issued) THEN NumberOf(Slice(r.issued, 0, 4))
  ELSE NumberOf(SubSeq(r.celex, 2, 5))

\* C16: every record that passed the filters, and so every record returned,
\* has an id and a title, and with a minimum year set none has a year below
\* it, the year being that of the issued date when there is one and that of
\* the id otherwise.
C16_PostFilter ==
  \A r \in ElementsOf(dd.items) \cup ElementsOf(dd.result) :
    /\ Truthy(r.celex)
    /\ Truthy(r.title)
    /\ dd.sinceYear # 0 =>
         ~(RecordYear(r).finite /\ NumLess(RecordYear(r), dd.sinceYear))

\* C16: with the minimum year 2018, a binding without id or title and a
\* binding of 2016 without issued date were dropped, and a binding of
\* the same id issued in 2020 is returned.
C16_Witness ==
  /\ dd.pc = "done"
  /\ dd.sinceYear = 2018
  /\ Len(dd.bindings) = 3
  /\ (~Truthy(dd.bindings[1].celex) \/ ~Truthy(dd.bindings[1].title))
  /\ dd.bindings[2] = Binding(CelexChars1, TitleA, LangROU, Undefined)
  /\ dd.bindings[3] = Binding(CelexChars1, TitleA, LangENG, Issued2020)
  /\ dd.result = <<DiscItemOf(dd.bindings[3])>>

----------------------------------------------------------------------------
(* The specification of the chunker: buildChunks on one token sequence and
   one pair of sizes, then upsertDocument of the passages into an empty
   table. *)

Token(type, text) == [ type |-> type, text |-> text ]

\* The texts of the tokens: empty, white space only, one and two
\* characters, two sentences, one long word, a text with a run of line
\* breaks, and two words with a vertical tab between them.
TokenTexts ==
  { <<>>,
    <<" ">>,
    <<"a">>,
    <<"a", "b">>,
    <<"a", ".", " ", "B">>,
    <<"a", "b", "c", "d", "e">>,
    <<"a", "\n", "\n", "\n", "b">>,
    <<"a", "VT", "b">> }

TokenPool == { Token(type, text) : type \in {"heading", "text"}, text \in TokenTexts }

MaxTokens == 2

TokenLists == UNION { [1..n -> TokenPool] : n \in 0..MaxTokens }

MaxChunkSize == 4

\* The pairs 0 < minSize <= maxSize.
ChunkSizes ==
  { <<mn, mx>> \in (1..MaxChunkSize) \X (1..MaxChunkSize) : mn <= mx }

InitChunk ==
  /\ QueryIdle
  /\ IngestIdle
  /\ MoreIdle
  /\ sp = SpIdle
  /\ disc = DiscIdle
  /\ dd = DdIdle
  /\ \E tokens \in TokenLists, sizes \in ChunkSizes :
       ch = [ ChIdle EXCEPT !.pc = "input", !.tokens = tokens,
                            !.minSize = sizes[1], !.maxSize = sizes[2] ]

\* buildChunks(tokens, minSize, maxSize) (line 491).
ChBuild ==
  /\ ch.pc = "input"
  /\ ch' = [ ch EXCEPT !.pc = "built",
                       !.chunks = buildChunks(ch.tokens, ch.minSize, ch.maxSize) ]
  /\ UNCHANGED <<fw, fwHist, table, an, ingestVars, sp, disc, dd, moreVars>>

\* Line 494: upsertDocument(item.celex, chunks) is entered for the one
\* record of a run; its awaits are the steps UpEmbed to UpRollback.
ChStore ==
  /\ ch.pc = "built"
  /\ ch' = [ ch EXCEPT !.pc = "upsert" ]
  /\ seed' = [ SeedStarted(<<Item(Celex1, "RO")>>, FALSE) EXCEPT !.pc = "upsert" ]
  /\ up' = UpStart(Celex1, ch.chunks, table, lastStore)
  /\ UNCHANGED <<fw, fwHist, table, an, conn, pr, lastStore, sp, disc, dd, moreVars>>

NextChunk ==
  \/ ChBuild \/ ChStore
  \/ UpEmbed \/ UpConnect \/ UpBegin \/ UpInsert \/ UpCommit \/ UpRollback

SpecChunk == InitChunk /\ [][NextChunk]_vars

----------------------------------------------------------------------------
(* Claims about the chunker. *)

ChBuilt == ch.pc \in {"built", "upsert"}

\* upsertDocument returned: the passages are committed.
ChStored == ch.pc = "upsert" /\ up.pc = "returned"

\* The sentences of the text tokens of the input.
InputSentences ==
  UNION { ElementsOf(sentenceSplit(ch.tokens[j].text)) :
            j \in {k \in 1..Len(ch.tokens) : ch.tokens[k].type = "text"} }

LongSentences == { s \in InputSentences : Len(s) > ch.maxSize }

\* Whether p is a run of consecutive characters of s.
IsPartOf(p, s) ==
  \E a \in 1..(Len(s) + 1) :
    a + Len(p) - 1 <= Len(s) /\ SubSeq(s, a, a + Len(p) - 1) = p

\* C17: no passage of buildChunks is longer than maxSize, the passages
\* that hold a part of a hard-split sentence included.
C17_Ceiling ==
  ChBuilt => \A i \in 1..Len(ch.chunks) : Len(ch.chunks[i]) <= ch.maxSize

\* C17: a sentence longer than maxSize arrived at a buffer that was not
\* empty, and a passage longer than maxSize holds the buffer and the first
\* part of the sentence.
C17_Witness ==
  /\ ChBuilt
  /\ ch.tokens = << Token("text", <<"a">>), Token("text", <<"a", "b", "c", "d", "e">>) >>
  /\ ch.minSize = 2 /\ ch.maxSize = 2
  /\ ch.chunks[1] = <<"a", " ", "a", "b">>

\* C18: every passage of buildChunks is at least minSize and at most
\* maxSize long, unless it is a part of one sentence of the input that is
\* longer than maxSize.
C18_SizeWindow ==
  ChBuilt =>
    \A i \in 1..Len(ch.chunks) :
      \/ ch.minSize <= Len(ch.chunks[i]) /\ Len(ch.chunks[i]) <= ch.maxSize
      \/ \E s \in LongSentences : IsPartOf(ch.chunks[i], s)

\* C18: the input is one text token of one character, no sentence is
\* longer than maxSize, and the only passage is shorter than minSize.
C18_Witness ==
  /\ ChBuilt
  /\ ch.tokens = << Token("text", <<"a">>) >>
  /\ ch.minSize = 2
  /\ LongSentences = {}
  /\ ch.chunks = << <<"a">> >>

RECURSIVE Concat(_)
Concat(texts) == IF texts = <<>> THEN <<>> ELSE Head(texts) \o Concat(Tail(texts))

NonWhiteSpace(t) == SelectSeq(t, LAMBDA c : c \notin WhiteSpace)

TokenTextsOf(tokens) == [ j \in 1..Len(tokens) |-> tokens[j].text ]

\* C19: the passages of buildChunks, joined in order and without their
\* white space, are the texts of the tokens, joined in order and without
\* their white space.
C19_Coverage ==
  ChBuilt =>
    NonWhiteSpace(Concat(ch.chunks)) = NonWhiteSpace(Concat(TokenTextsOf(ch.tokens)))

\* C19: a heading and a sentence longer than maxSize gave several
\* passages.
C19_Witness ==
  /\ ChBuilt
  /\ \E j \in 1..Len(ch.tokens) : ch.tokens[j].type = "heading"
  /\ LongSentences # {}
  /\ Len(ch.chunks) >= 3

\* C20: no passage of buildChunks is empty or white space only, and the
\* rows stored for the passages are one per passage, numbered from 0 in
\* the order of the passages.
C20_NoEmptyPassage ==
  /\ ChBuilt => \A i \in 1..Len(ch.chunks) : Trim(ch.chunks[i]) # <<>>
  /\ ChStored =>
       /\ BagCardinality(table) = Len(ch.chunks)
       /\ \A i \in 1..Len(ch.chunks) :
            \E r \in RowsOf(table) :
              /\ r.celex = Celex1 /\ r.chunk_id = i - 1
              /\ r.content = ch.chunks[i]
              /\ table[r] = 1

\* C20: the input held a token without text beside others, and two or
\* more passages were stored.
C20_Witness ==
  /\ ChStored
  /\ \E j \in 1..Len(ch.tokens) : Trim(ch.tokens[j].text) = <<>>
  /\ Len(ch.chunks) >= 2

\* One mark per position of the token sequence.
HeadingMarks == << "H1", "H2", "H3", "H4" >>

HeadingMarkSet == ElementsOf(HeadingMarks)

\* The text with every character that is not white space replaced by m.
MarkText(text, m) ==
  [ k \in 1..Len(text) |-> IF text[k] \in WhiteSpace THEN text[k] ELSE m ]

\* The token sequence with the text of the heading at position j written
\* in the mark of j, so that the characters of a heading are told from
\* every other character of the input.
MarkHeadings(tokens) ==
  [ j \in 1..Len(tokens) |->
      IF tokens[j].type = "heading"
        THEN Token("heading", MarkText(tokens[j].text, HeadingMarks[j]))
        ELSE tokens[j] ]

\* buildChunks on the marked input.
MarkedChunks == buildChunks(MarkHeadings(ch.tokens), ch.minSize, ch.maxSize)

\* The marked passages are the passages, but for the marks.
SameButMarks(marked, plain) ==
  /\ Len(marked) = Len(plain)
  /\ \A i \in 1..Len(marked) :
       /\ Len(marked[i]) = Len(plain[i])
       /\ \A k \in 1..Len(marked[i]) :
            marked[i][k] = plain[i][k] \/ marked[i][k] \in HeadingMarkSet

\* The passage p holds the heading of position j, at its start and nowhere
\* else, and holds no other heading.
HeadingAtStart(p, j) ==
  LET h == cleanText(MarkHeadings(ch.tokens)[j].text)
  IN  /\ StartsWith(p, h)
      /\ \A k \in 1..Len(p) :
           p[k] \in HeadingMarkSet => p[k] = HeadingMarks[j] /\ k <= Len(h)

\* C21: every passage of buildChunks that holds characters of a heading
\* holds one heading only, and the text of that heading (as cleanText
\* leaves it) is the start of the passage: a heading never follows other
\* text in a passage.
C21_HeadingStartsPassage ==
  ChBuilt =>
    /\ SameButMarks(MarkedChunks, ch.chunks)
    /\ \A i \in 1..Len(MarkedChunks) :
         (\E k \in 1..Len(MarkedChunks[i]) : MarkedChunks[i][k] \in HeadingMarkSet)
           => \E j \in 1..Len(ch.tokens) : HeadingAtStart(MarkedChunks[i], j)

\* C21: a heading arrived at a buffer shorter than minSize; the buffer was
\* flushed and the heading starts the second passage.
C21_Witness ==
  /\ ChBuilt
  /\ ch.tokens = << Token("text", <<"a">>), Token("heading", <<"a", "b">>) >>
  /\ ch.minSize = 2
  /\ ch.chunks = << <<"a">>, <<"a", "b">> >>

\* The input is two text tokens, the first one sentence longer than
\* maxSize, which is hard-split from an empty buffer, the second with a
\* sentence to follow it.
LongThenNext ==
  /\ Len(ch.tokens) = 2
  /\ ch.tokens[1].type = "text" /\ ch.tokens[2].type = "text"
  /\ Len(sentenceSplit(ch.tokens[1].text)) = 1
  /\ Len(sentenceSplit(ch.tokens[1].text)[1]) > ch.maxSize
  /\ sentenceSplit(ch.tokens[2].text) # <<>>

\* The last of the slices of s, each maxSize long but the last.
FinalSlice(s, maxSize) ==
  LET r == ((Len(s) - 1) % maxSize) + 1
  IN  SubSeq(s, Len(s) - r + 1, Len(s))

\* C31: after the hard split of a sentence longer than maxSize, when its
\* final slice, a space and the next sentence of the input are together no
\* longer than maxSize, one passage starts with the final slice followed by
\* that sentence: the slice was not flushed when the split ended, whatever
\* minSize is.
C31_MergeForward ==
  (ChBuilt /\ LongThenNext) =>
    LET last == FinalSlice(sentenceSplit(ch.tokens[1].text)[1], ch.maxSize)
        next == sentenceSplit(ch.tokens[2].text)[1]
    IN  Len(last) + 1 + Len(next) <= ch.maxSize =>
          \E i \in 1..Len(ch.chunks) :
            StartsWith(ch.chunks[i], last \o <<" ">> \o next)

\* C31: with sizes 4 and 4, a sentence of five characters was split and
\* its final slice of one character shares a passage with the next
\* sentence.
C31_Witness ==
  /\ ChBuilt
  /\ ch.tokens = << Token("text", <<"a", "b", "c", "d", "e">>),
                    Token("text", <<"a">>) >>
  /\ ch.minSize = 4 /\ ch.maxSize = 4
  /\ ch.chunks = << <<"a", "b", "c", "d">>, <<"e", " ", "a">> >>

----------------------------------------------------------------------------
(* The specification of the extractor: extractMainTokens on the elements
   that main.find('h1, h2, h3, h4, p, li') gives. *)

Node(tag, text) == [ tag |-> tag, text |-> text ]

NodeTags == { <<"h", "2">>, <<"p">>, <<"l", "i">> }

\* The texts of the elements: empty, one letter, a text that reads as a
\* heading, and a text with white space around it.
NodeTexts ==
  { <<>>, <<"a">>, <<"I", " ", "x">>, <<" ", "b", "\n">> }

NodePool == { Node(tag, text) : tag \in NodeTags, text \in NodeTexts }

MaxNodes == 3

NodeLists == UNION { [1..n -> NodePool] : n \in 0..MaxNodes }

InitExtract ==
  /\ QueryIdle
  /\ IngestIdle
  /\ sp = SpIdle /\ disc = DiscIdle /\ dd = DdIdle /\ ch = ChIdle
  /\ rt = RtIdle /\ calls = CallsIdle /\ txs = TxsIdle /\ home = HomeIdle
  /\ \E nodes \in NodeLists : ex = [ ExIdle EXCEPT !.pc = "input", !.nodes = nodes ]

\* extractMainTokens(html) (line 490).
ExExtract ==
  /\ ex.pc = "input"
  /\ ex' = [ ex EXCEPT !.pc = "done", !.tokens = extractMainTokens(ex.nodes) ]
  /\ UNCHANGED <<fw, fwHist, table, an, ingestVars, sp, disc, dd, ch, rt, calls, txs, home>>

NextExtract == ExExtract

SpecExtract == InitExtract /\ [][NextExtract]_vars

----------------------------------------------------------------------------
(* Claims about the extractor. *)

\* What an element gives: its cleaned text, with the bullet of a list item,
\* and whether it reads as a heading.
ElementText(n) ==
  IF n.tag = <<"l", "i">> THEN <<"BULLET", " ">> \o cleanText(n.text)
  ELSE cleanText(n.text)

ElementIsHeading(n) == n.tag[1] = "h" \/ isLikelyHeading(ElementText(n))

\* The elements with a text, as (type, text), in document order.
ElementsWithText(nodes) ==
  LET kept == SelectSeq(nodes, LAMBDA n : cleanText(n.text) # <<>>)
  IN  [ j \in 1..Len(kept) |->
          Token(IF ElementIsHeading(kept[j]) THEN "heading" ELSE "text",
                ElementText(kept[j])) ]

\* The tokens with every heading token taken apart at its newlines.
RECURSIVE Unmerged(_)
Unmerged(tokens) ==
  IF tokens = <<>> THEN <<>>
  ELSE LET t == Head(tokens)
           parts == SplitOn(t.text, "\n", <<>>)
       IN  (IF t.type = "heading"
              THEN [ j \in 1..Len(parts) |-> Token("heading", parts[j]) ]
              ELSE << t >>)
             \o Unmerged(Tail(tokens))

\* C30: the tokens of extractMainTokens hold no two heading tokens side
\* by side and no token without text; taken apart at the newlines of the
\* heading tokens, they are the elements that have a text, each with its
\* type and text, in document order: a run of heading elements is one
\* token, its texts joined by newlines, and a body token is one element.
C30_HeadingsCoalesced ==
  ex.pc = "done" =>
    /\ \A j \in 1..(Len(ex.tokens) - 1) :
         ~(ex.tokens[j].type = "heading" /\ ex.tokens[j + 1].type = "heading")
    /\ \A j \in 1..Len(ex.tokens) : ex.tokens[j].text # <<>>
    /\ Unmerged(ex.tokens) = ElementsWithText(ex.nodes)

\* C30: an h2, a paragraph that reads as a heading and a paragraph gave
\* one heading token of two lines and one body token.
C30_Witness ==
  /\ ex.pc = "done"
  /\ ex.nodes = << Node(<<"h", "2">>, <<"a">>), Node(<<"p">>, <<"I", " ", "x">>),
                   Node(<<"p">>, <<"a">>) >>
  /\ ex.tokens = << Token("heading", <<"a", "\n", "I", " ", "x">>),
                    Token("text", <<"a">>) >>

----------------------------------------------------------------------------
(* The specification of upsertDocument transactions side by side, each on a
   document of its own, from BEGIN on (lines 436-456).  A transaction sees
   the committed rows and its own writes; its writes reach the table at
   COMMIT and are dropped at ROLLBACK. *)

\* The documents of the transactions.
TxDocs == << Celex1, Celex2 >>

\* The passages of a document: none, one, two.
TxChunkLists == { <<>>, << <<"a">> >>, << <<"a", "b">>, <<"a">> >> }

\* The tables at the start: empty, or with rows of both documents left by
\* earlier runs.
TxTables ==
  { EmptyTable,
    StoreChunks(StoreChunks(EmptyTable, Celex1,
                            << <<"a", "b", "c">>, <<"a">>, <<"b">> >>),
                Celex2, << <<"c">> >>) }

\* upsertDocument(celex, chunks) with its embeddings computed and its
\* client connected: BEGIN is sent.  `before` is history: the table then.
TxStart(celex, chunks, tbl) ==
  [ pc |-> "begin", celex |-> celex, chunks |-> chunks, i |-> 0,
    writes |-> <<>>, before |-> tbl ]

\* The rows of the sequence written into the table, in their order.
RECURSIVE ApplyWrites(_, _)
ApplyWrites(tbl, writes) ==
  IF writes = <<>> THEN tbl
  ELSE ApplyWrites(UpsertRow(tbl, Head(writes)), Tail(writes))

\* Mutant: COMMIT puts the table back to what the transaction saw at its
\* start, with its writes.
TxCommittedSnapshot(tbl, t) == ApplyWrites(t.before, t.writes)

\* Line 450: COMMIT makes the writes of the transaction part of the table.
TxCommitted(tbl, t) == ApplyWrites(tbl, t.writes)

InitTxs ==
  /\ fw = FwIdle /\ fwHist = NoFwHist /\ an = AnIdle
  /\ IngestIdle
  /\ sp = SpIdle /\ disc = DiscIdle /\ dd = DdIdle /\ ch = ChIdle
  /\ rt = RtIdle /\ calls = CallsIdle /\ ex = ExIdle /\ home = HomeIdle
  /\ table \in TxTables
  /\ \E lists \in [1..Len(TxDocs) -> TxChunkLists] :
       txs = [ i \in 1..Len(TxDocs) |-> TxStart(TxDocs[i], lists[i], table) ]

\* BEGIN succeeds, and with no passage the loop of lines 439-449 has no
\* turn and COMMIT comes next, or fails and ROLLBACK is sent (lines 438,
\* 451-452).
TxBegin(i) ==
  /\ txs[i].pc = "begin"
  /\ \/ txs' = [txs EXCEPT ![i].pc = IF txs[i].chunks = <<>>
                                       THEN "commit" ELSE "insert"]
     \/ txs' = [txs EXCEPT ![i].pc = "rollback"]
  /\ UNCHANGED <<fw, fwHist, table, an, ingestVars, sp, disc, dd, ch, rt, calls, ex, home>>

\* The INSERT of chunk i succeeds, or fails and ROLLBACK is sent (lines
\* 447-449, 451-452).
TxInsert(i) ==
  /\ txs[i].pc = "insert"
  /\ \/ LET t == txs[i]
            row == NewRow(t.celex, t.i, t.chunks[t.i + 1],
                          toPgVector(EmbedModel(t.chunks[t.i + 1])))
        IN  txs' = [txs EXCEPT ![i].writes = Append(@, row),
                               ![i].i = @ + 1,
                               ![i].pc = IF t.i + 1 = Len(t.chunks)
                                           THEN "commit" ELSE "insert"]
     \/ txs' = [txs EXCEPT ![i].pc = "rollback"]
  /\ UNCHANGED <<fw, fwHist, table, an, ingestVars, sp, disc, dd, ch, rt, calls, ex, home>>

\* COMMIT succeeds, or fails and ROLLBACK is sent (lines 450-452).
TxCommit(i) ==
  /\ txs[i].pc = "commit"
  /\ \/ /\ table' = TxCommitted(table, txs[i])
        /\ txs' = [txs EXCEPT ![i].pc = "returned"]
     \/ /\ txs' = [txs EXCEPT ![i].pc = "rollback"]
        /\ UNCHANGED table
  /\ UNCHANGED <<fw, fwHist, an, ingestVars, sp, disc, dd, ch, rt, calls, ex, home>>

\* ROLLBACK (lines 451-453): the writes are dropped and the error is thrown.
TxRollback(i) ==
  /\ txs[i].pc = "rollback"
  /\ txs' = [txs EXCEPT ![i].pc = "thrown", ![i].writes = <<>>]
  /\ UNCHANGED <<fw, fwHist, table, an, ingestVars, sp, disc, dd, ch, rt, calls, ex, home>>

NextTxs ==
  \E i \in 1..Len(TxDocs) :
    TxBegin(i) \/ TxInsert(i) \/ TxCommit(i) \/ TxRollback(i)

SpecTxs == InitTxs /\ [][NextTxs]_vars

----------------------------------------------------------------------------
(* Claims about transactions side by side, checked under SpecTxs. *)

\* The rows of a document, with how often each is stored.
DocBag(tbl, celex) == [ r \in DocRows(tbl, celex) |-> tbl[r] ]

\* What the upsert of the transaction leaves of its document when it runs
\* alone from the table at its start: the rows of its committed upsert, or
\* the rows as they were.
RowsAlone(t) ==
  IF t.pc = "returned"
    THEN DocBag(StoreChunks(t.before, t.celex, t.chunks), t.celex)
    ELSE DocBag(t.before, t.celex)

\* C28: at every point of every interleaving of two upsertDocument
\* transactions on different documents, the rows of each document are
\* those its own upsert alone has left: the rows of its committed upsert
\* once it has committed, the rows at the start before that and after a
\* rollback, whatever the other transaction did.
C28_UpsertsIndependent ==
  \A i \in 1..Len(TxDocs) : DocBag(table, txs[i].celex) = RowsAlone(txs[i])

\* C28: the first transaction rolled back after an INSERT and the second
\* committed two passages over stored rows.
C28_Witness ==
  /\ txs[1].pc = "thrown" /\ txs[1].i = 1
  /\ txs[2].pc = "returned" /\ Len(txs[2].chunks) = 2
  /\ txs[1].before # EmptyTable

(***************************************************************************)
(* The chat page: HomePage (src/app/page.tsx:6-118)                        *)
(***************************************************************************)

\* Most requests the page sends in a run.
MaxSends == 3

\* What the user leaves in the input.
HomeInputs == { <<>>, <<" ">>, <<"q">>, <<" ", "r", " ">> }

\* Line 16: the item of a question, with no answer and no error yet.  `id`
\* and `by` are history: the number of the request sent with the item, and
\* of the request whose outcome was written to it (0 for none).
NewItem(question, id) ==
  [ q |-> question, a |-> <<>>, hasA |-> FALSE, error |-> <<>>,
    id |-> id, by |-> 0 ]

\* A request of lines 19-24: the question of its body, and how far it is:
\* `stage` is "fetch" while fetch is awaited and "json" while res.json() of
\* the response is, `ok` being res.ok.
HomeRequest(question, id) ==
  [ id |-> id, question |-> question, stage |-> "fetch", ok |-> FALSE ]

\* The text the server answers a question with.
ReplyText(question) == <<"A", ":">> \o question

ServerErrorText == <<"Eroare de server">>
NetworkErrorText == <<"Network error">>

\* The ways the request of a question settles (lines 19-24): a response
\* that is ok, with or without a text; a response that is not ok, with or
\* without an error field; a rejection of fetch or of res.json(), with or
\* without a message.
HomeOutcomes(question) ==
  { [ kind |-> "ok", text |-> ReplyText(question) ],
    [ kind |-> "ok", text |-> <<>> ],
    [ kind |-> "notOk", text |-> <<"e">> ],
    [ kind |-> "notOk", text |-> <<>> ],
    [ kind |-> "thrown", text |-> <<"m">> ],
    [ kind |-> "thrown", text |-> <<>> ] }

\* The updaters of lines 25-36 and 38-43: the outcome is written to the
\* last item of the list.  On an empty list `last` is undefined and the
\* updater throws: nothing is written.
HomeWritten(items, req, out) ==
  IF items = <<>> THEN items
  ELSE [ items EXCEPT ![Len(items)] =
           IF out.kind = "ok"
             THEN [ @ EXCEPT !.a = out.text, !.hasA = TRUE, !.by = req.id ]
           ELSE IF out.kind = "notOk"
             THEN [ @ EXCEPT !.error = IF out.text # <<>> THEN out.text
                                       ELSE ServerErrorText,
                             !.by = req.id ]
           ELSE [ @ EXCEPT !.error = IF out.text # <<>> THEN out.text
                                     ELSE NetworkErrorText,
                           !.by = req.id ] ]

\* The sequence without its element k.
WithoutAt(seq, k) == SubSeq(seq, 1, k - 1) \o SubSeq(seq, k + 1, Len(seq))

\* onChange of the input (lines 104-110), which is disabled while pending.
HomeType ==
  /\ ~home.pending
  /\ \E t \in HomeInputs : home' = [home EXCEPT !.input = t]
  /\ UNCHANGED <<fw, fwHist, table, an, ingestVars, sp, disc, dd, ch, rt, calls,
                 txs, ex>>

\* send() up to its await (lines 12-23), called by the button or by Enter:
\* nothing happens with an empty question or while pending; otherwise
\* pending is set, the item of the question is appended, the input is
\* emptied and the request is sent.
send ==
  /\ home.sends < MaxSends
  /\ LET question == Trim(home.input)
     IN  IF question = <<>> \/ home.pending
           THEN UNCHANGED home
           ELSE home' = [ home EXCEPT
                            !.pending = TRUE,
                            !.items = Append(@, NewItem(question, home.sends + 1)),
                            !.input = <<>>,
                            !.inflight = Append(@, HomeRequest(question, home.sends + 1)),
                            !.sends = @ + 1 ]
  /\ UNCHANGED <<fw, fwHist, table, an, ingestVars, sp, disc, dd, ch, rt, calls,
                 txs, ex>>

\* Mutant: the clear button is enabled while pending.
HomeClearWhilePending ==
  /\ home.items # <<>>
  /\ home' = [home EXCEPT !.items = <<>>]
  /\ UNCHANGED <<fw, fwHist, table, an, ingestVars, sp, disc, dd, ch, rt, calls,
                 txs, ex>>

\* The clear button (line 62), disabled while pending and on an empty
\* list: setItems([]).
HomeClear ==
  /\ ~(home.pending \/ home.items = <<>>)
  /\ home' = [home EXCEPT !.items = <<>>]
  /\ UNCHANGED <<fw, fwHist, table, an, ingestVars, sp, disc, dd, ch, rt, calls,
                 txs, ex>>

\* The outcome of a request is written (lines 25-47) by the try or by the
\* catch, and the finally sets pending to false.
HomeEnds(k, out) ==
  home' = [ home EXCEPT
              !.items = HomeWritten(@, home.inflight[k], out),
              !.pending = FALSE,
              !.inflight = WithoutAt(@, k) ]

\* fetch settles (lines 19-24): with a response, ok or not, whose body
\* res.json() is asked for; or with a rejection, which the catch writes.
HomeResponse ==
  /\ \E k \in 1..Len(home.inflight) :
       /\ home.inflight[k].stage = "fetch"
       /\ \/ \E ok \in BOOLEAN :
               home' = [ home EXCEPT !.inflight[k].stage = "json",
                                     !.inflight[k].ok = ok ]
          \/ \E out \in HomeOutcomes(home.inflight[k].question) :
               out.kind = "thrown" /\ HomeEnds(k, out)
  /\ UNCHANGED <<fw, fwHist, table, an, ingestVars, sp, disc, dd, ch, rt, calls,
                 txs, ex>>

\* res.json() settles (lines 24-47): the body of a response is written by
\* the try as the answer or as the error, as res.ok says, and a rejection
\* by the catch.
HomeSettle ==
  /\ \E k \in 1..Len(home.inflight) :
       /\ home.inflight[k].stage = "json"
       /\ \E out \in HomeOutcomes(home.inflight[k].question) :
            /\ out.kind \in {IF home.inflight[k].ok THEN "ok" ELSE "notOk", "thrown"}
            /\ HomeEnds(k, out)
  /\ UNCHANGED <<fw, fwHist, table, an, ingestVars, sp, disc, dd, ch, rt, calls,
                 txs, ex>>

InitHome ==
  /\ fw = FwIdle
  /\ fwHist = NoFwHist
  /\ table = EmptyTable
  /\ an = AnIdle
  /\ IngestIdle
  /\ AuxIdle

NextHome == HomeType \/ send \/ HomeClear \/ HomeResponse \/ HomeSettle

SpecHome == InitHome /\ [][NextHome]_vars

----------------------------------------------------------------------------
(* Claims about the chat page. *)

\* What an item shows is an outcome of the request of its own question.
OwnOutcome(it) ==
  /\ it.by \in {0, it.id}
  /\ it.hasA => it.by = it.id /\ it.a \in {ReplyText(it.q), <<>>}
  /\ it.error # <<>> => it.by = it.id
  /\ it.by = 0 => ~it.hasA /\ it.error = <<>>

\* C36: whatever the order of send, clear and the settling of requests, at
\* most one request is in flight; pending is true exactly while one is, so
\* it is false again once the request has settled, with a reply or with an
\* error; while the request is in flight the last item of the list is the
\* item of its question, still without an outcome; and every answer or
\* error an item shows is that of the request sent with the item.
C36_RequestDiscipline ==
  /\ Len(home.inflight) <= 1
  /\ home.pending = (home.inflight # <<>>)
  /\ home.pending =>
       /\ home.items # <<>>
       /\ home.items[Len(home.items)].id = home.inflight[1].id
       /\ home.items[Len(home.items)].q = home.inflight[1].question
       /\ home.items[Len(home.items)].by = 0
  /\ \A i \in 1..Len(home.items) : OwnOutcome(home.items[i])

\* C36: after a cleared conversation, the second and the third request
\* have settled, one with its answer and one with an error, each on its own
\* item, and pending is false.
C36_Witness ==
  /\ ~home.pending
  /\ home.sends = 3
  /\ Len(home.items) = 2
  /\ home.items[1].id = 2 /\ home.items[1].by = 2 /\ home.items[1].hasA
  /\ home.items[1].a = ReplyText(home.items[1].q)
  /\ home.items[2].id = 3 /\ home.items[2].by = 3
  /\ home.items[2].error = NetworkErrorText

====
